---- MODULE Spec2Model ----
(* Helixer annotation import: identifier allocation, grouping of GFF       *)
(* entries by gene, construction of a SuperLoci from one entry group and   *)
(* its structural normalisation (src/annotations.py).                      *)
EXTENDS Integers, Sequences, FiniteSets, TLC

VARIABLES idm, issued,
          genome, sl, entries, pc, raised, ncollapse,
          gff, rpos, gene_group, gpc, super_loci, yielded, outcome,
          ti, interval_sets, ipc, call,
          exported, imported

vars == <<idm, issued, genome, sl, entries, pc, raised, ncollapse,
          gff, rpos, gene_group, gpc, super_loci, yielded, outcome,
          ti, interval_sets, ipc, call, exported, imported>>

idVars == <<idm, issued>>
groupVars == <<sl, entries, pc, raised, ncollapse>>
gffVars == <<gff, rpos, gene_group, gpc, super_loci, yielded, outcome>>
interpVars == <<ti, interval_sets, ipc, call>>
jsonVars == <<exported, imported>>

(* ---------------------------------------------------------------------- *)
(* Bounds                                                                  *)
(* ---------------------------------------------------------------------- *)
MaxCalls == 4

MaxEntries == 3

MaxCollapseCalls == 2

MaxGff == 4

MaxFeatures == 2

\* calls of get_status in one sequence
MaxThreaded == 4

\* the most significant digits of a score that are read
MaxDigits == 8

\* the largest exponent of a score that is read: past it every value is infinite or zero
MaxExponent == 9999

(* ---------------------------------------------------------------------- *)
(* Python values                                                           *)
(* ---------------------------------------------------------------------- *)
None == "<None>"

\* a result of a call: the exception raised ("none" for a return) and the value returned
Returns(out) == [raised |-> "none", out |-> out]

Fails(exc) == [raised |-> exc, out |-> <<>>]

Reverse(s) == [n \in 1..Len(s) |-> s[Len(s) + 1 - n]]

(* ---------------------------------------------------------------------- *)
(* FeatureDecoder: the vocabulary of entry types                           *)
(* ---------------------------------------------------------------------- *)
gene == "gene"

gene_level == {"gene", "super_gene", "ncRNA_gene", "pseudogene"}

transcribed == {"mRNA", "transcript", "tRNA", "primary_transcript", "rRNA", "miRNA", "snoRNA", "snRNA",
                "SRP_RNA", "lnc_RNA", "pre_miRNA", "RNase_MRP_RNA", "pseudogenic_transcript"}

exon == "exon"

sub_transcribed == {"exon", "intron"}

cds == "CDS"

coding_info == {"CDS", "five_prime_UTR", "three_prime_UTR"}

point_annotations == {"TSS", "TTS", "start_codon", "stop_codon", "donor_splice_site", "acceptor_splice_site",
                      "trans_donor_splice_site", "trans_acceptor_splice_site"}

regions == {"region", "chromosome", "supercontig"}

ignorable == {"match", "cDNA_match"}

error == "error"

statuses == {"status_coding", "status_intron", "status_five_prime_UTR", "status_three_prime_UTR",
             "status_intergenic"}

on_sequence == sub_transcribed \cup coding_info \cup point_annotations

known == gene_level \cup transcribed \cup sub_transcribed \cup coding_info \cup point_annotations
         \cup regions \cup ignorable \cup {error} \cup statuses

(* ---------------------------------------------------------------------- *)
(* IDMaker                                                                 *)
(* ---------------------------------------------------------------------- *)
Width == 6

DigitStr == <<"0", "1", "2", "3", "4", "5", "6", "7", "8", "9">>

RECURSIVE Dec(_)
Dec(n) == IF n < 10 THEN DigitStr[n + 1] ELSE Dec(n \div 10) \o DigitStr[(n % 10) + 1]

RECURSIVE NumDigits(_)
NumDigits(n) == IF n < 10 THEN 1 ELSE 1 + NumDigits(n \div 10)

RECURSIVE Zeros(_)
Zeros(k) == IF k <= 0 THEN "" ELSE "0" \o Zeros(k - 1)

\* '{:0<width>}'.format(n): at least width characters, padded with zeros on the left
ZeroPad(n, width) == Zeros(width - NumDigits(n)) \o Dec(n)

IDMaker(prefix) == [counter |-> 0, prefix |-> prefix, seen |-> {}, width |-> Width]

FmtId(m) == m.prefix \o ZeroPad(m.counter, m.width)

NewId(m) == [id |-> FmtId(m), m |-> [m EXCEPT !.seen = @ \cup {FmtId(m)}, !.counter = @ + 1]]

NextUniqueId(m, suggestion) ==
    IF suggestion # None /\ suggestion \notin m.seen
    THEN [id |-> suggestion, m |-> [m EXCEPT !.seen = @ \cup {suggestion}]]
    ELSE NewId(m)

(* ---------------------------------------------------------------------- *)
(* Python containers                                                       *)
(* ---------------------------------------------------------------------- *)
\* a dict whose iteration order matters: keys in insertion order and the mapping
EmptyDict == [order |-> <<>>, map |-> <<>>]

DictPut(d, k, v) == [order |-> IF k \in DOMAIN d.map THEN d.order ELSE Append(d.order, k),
                     map |-> (k :> v) @@ d.map]

DictPop(d, k) == [order |-> SelectSeq(d.order, LAMBDA x : x # k),
                  map |-> [x \in (DOMAIN d.map) \ {k} |-> d.map[x]]]

DictValues(d) == [n \in 1..Len(d.order) |-> d.map[d.order[n]]]

\* list.pop(list.index(x)): drops the first occurrence of x
RemoveFirst(s, x) ==
    LET i == CHOOSE n \in 1..Len(s) : s[n] = x /\ \A m \in 1..(n - 1) : s[m] # x
    IN SubSeq(s, 1, i - 1) \o SubSeq(s, i + 1, Len(s))

InSeq(s, x) == \E n \in 1..Len(s) : s[n] = x

\* the ids a run can produce, listed in the order sorted() gives them
SynthCount == 2 * (MaxEntries + MaxGff + MaxCalls) + 2

SortedIds == <<"a", "b">> \o [n \in 1..SynthCount |-> "ftr" \o ZeroPad(n - 1, Width)]

(* ---------------------------------------------------------------------- *)
(* Entities                                                                *)
(* ---------------------------------------------------------------------- *)
Handle(n) == "sl" \o Dec(n)

MetaInfoAnnotation == [number_genes |-> 0, bp_intergenic |-> 0, bp_coding |-> 0, bp_intronic |-> 0,
                       bp_3pUTR |-> 0, bp_5pUTR |-> 0]

MetaInfoAnnoGenome == MetaInfoAnnotation @@ [species |-> "", accession |-> "", version |-> "",
                                             acquired_from |-> ""]

MetaInfoAnnoSequence == MetaInfoAnnotation @@ [seqid |-> "", total_bp |-> 0]

Genome == [feature_ider |-> IDMaker("ftr"), transcript_ider |-> IDMaker("trx"),
           meta_info |-> MetaInfoAnnoGenome, meta_info_sequences |-> EmptyDict]

\* add_gff, first loop: one MetaInfoAnnoSequence for every sequence of the genome
RECURSIVE AddSequences(_, _, _)
AddSequences(g, sequences, k) ==
    IF k > Len(sequences)
    THEN g
    ELSE AddSequences([g EXCEPT !.meta_info_sequences =
                           DictPut(@, sequences[k].seqid,
                                   [MetaInfoAnnoSequence EXCEPT !.seqid = sequences[k].seqid,
                                                                !.total_bp = sequences[k].total_bp])],
                      sequences, k + 1)

Transcribed == [id |-> "", type |-> "", is_partial |-> FALSE, is_reconstructed |-> FALSE,
                is_type_in_question |-> FALSE, super_loci |-> None, features |-> <<>>]

StructuredFeature == [id |-> "", type |-> "", is_partial |-> FALSE, is_reconstructed |-> FALSE,
                      is_type_in_question |-> FALSE, start |-> -1, end |-> -1, seqid |-> "", strand |-> ".",
                      frame |-> ".", score |-> -1, source |-> "", transcripts |-> <<>>, super_loci |-> None]

\* _dummy_transcript is <<>> (None) or <<d>>: d.attached tells whether transcripts[d.id] still is the
\* cached object; when it is not, d.obj is the state of the cached object; transcripts_order holds
\* the keys of the dict transcripts in the order of their insertion
SuperLoci(handle) == [self |-> handle, id |-> "", type |-> "", is_partial |-> FALSE, is_reconstructed |-> FALSE,
                      is_type_in_question |-> FALSE, ids |-> <<>>, transcripts |-> <<>>,
                      transcripts_order |-> <<>>, features |-> EmptyDict, dummy |-> <<>>]

\* the order of the keys of a dict after d[k] = v
KeysAfterPut(order, map, k) == IF k \in DOMAIN map THEN order ELSE Append(order, k)

\* the objects one call works on: a SuperLoci, the allocators of its genome and the exception raised
Ctx(s, g) == [sl |-> s, genome |-> g, raised |-> "none"]

Raise(b, exc) == [b EXCEPT !.raised = exc]

(* ---------------------------------------------------------------------- *)
(* Transcribed                                                             *)
(* ---------------------------------------------------------------------- *)
TranscribedAddData(handle, entry) ==
    [Transcribed EXCEPT !.super_loci = handle, !.id = entry.id, !.type = entry.type]

LinkToFeature(t, feature_id) == [t EXCEPT !.features = Append(@, feature_id)]

(* ---------------------------------------------------------------------- *)
(* SuperLoci.dummy_transcript                                              *)
(* ---------------------------------------------------------------------- *)
DummyTranscript(b) ==
    IF b.sl.dummy # <<>>
    THEN b
    ELSE LET r == NextUniqueId(b.genome.transcript_ider, None)
             t == [Transcribed EXCEPT !.id = r.id]
         IN [b EXCEPT !.genome.transcript_ider = r.m,
                      !.sl.dummy = <<[id |-> r.id, attached |-> TRUE, obj |-> t]>>,
                      !.sl.transcripts = (r.id :> t) @@ @,
                      !.sl.transcripts_order = KeysAfterPut(@, b.sl.transcripts, r.id)]

\* transcript.link_to_feature on the object dummy_transcript() returned
DummyLinkToFeature(b, feature_id) ==
    LET d == b.sl.dummy[1]
    IN IF d.attached
       THEN [b EXCEPT !.sl.transcripts[d.id] = LinkToFeature(@, feature_id)]
       ELSE [b EXCEPT !.sl.dummy = <<[d EXCEPT !.obj = LinkToFeature(@, feature_id)]>>]

(* ---------------------------------------------------------------------- *)
(* StructuredFeature                                                       *)
(* ---------------------------------------------------------------------- *)
\* works on [sl, genome, raised, f]: f is the feature, not (yet) looked up through the feature map
LinkToTranscriptAndBack(b, transcript_id) ==
    IF transcript_id \notin DOMAIN b.sl.transcripts
    THEN Raise(b, "KeyError")
    ELSE [b EXCEPT !.sl.transcripts[transcript_id] = LinkToFeature(@, b.f.id),
                   !.f.transcripts = Append(@, transcript_id)]

\* one pass of the loop over the declared parents
AddDataParent(b, transcript_id) ==
    IF transcript_id \in DOMAIN b.sl.transcripts
    THEN LinkToTranscriptAndBack(
             [b EXCEPT !.sl.transcripts[transcript_id] = LinkToFeature(@, b.f.id)], transcript_id)
    ELSE IF transcript_id = b.sl.id
         THEN LET b1 == DummyTranscript(b)
              IN LinkToTranscriptAndBack(DummyLinkToFeature(b1, b.f.id), b1.sl.dummy[1].id)
         ELSE LinkToTranscriptAndBack([b EXCEPT !.f.type = error], None)

RECURSIVE AddDataParents(_, _, _)
AddDataParents(b, parents, k) ==
    IF k > Len(parents) \/ b.raised # "none"
    THEN b
    ELSE AddDataParents(AddDataParent(b, parents[k]), parents, k + 1)

\* the characters of a text
Chars(text) == [n \in 1..Len(text) |-> SubSeq(text, n, n)]

\* the character at position p, the empty text past the end
At(s, p) == IF p <= Len(s) THEN s[p] ELSE ""

IsDigit(c) == \E n \in 1..10 : DigitStr[n] = c

DigitValue(c) == (CHOOSE n \in 1..10 : DigitStr[n] = c) - 1

RECURSIVE Pow10(_)
Pow10(k) == IF k = 0 THEN 1 ELSE 10 * Pow10(k - 1)

\* the number of digits of s from position from on, up to the first character that is no digit
RECURSIVE DigitsFrom(_, _)
DigitsFrom(s, from) ==
    IF from > Len(s) \/ ~IsDigit(s[from]) THEN 0 ELSE 1 + DigitsFrom(s, from + 1)

\* the number of leading '0' of a sequence of digits
RECURSIVE LeadingZeros(_)
LeadingZeros(s) == IF s = <<>> \/ s[1] # "0" THEN 0 ELSE 1 + LeadingZeros(Tail(s))

\* the number written by a sequence of digits
RECURSIVE Number(_)
Number(s) == IF s = <<>> THEN 0 ELSE 10 * Number(SubSeq(s, 1, Len(s) - 1)) + DigitValue(s[Len(s)])

\* the letters of inf, infinity, nan and of the exponent mark are read in either case
UpperCase == <<"I", "N", "F", "T", "Y", "A", "E">>

LowerCase == <<"i", "n", "f", "t", "y", "a", "e">>

Lower(c) ==
    IF \E n \in 1..Len(UpperCase) : UpperCase[n] = c
    THEN LowerCase[CHOOSE n \in 1..Len(UpperCase) : UpperCase[n] = c]
    ELSE c

\* float() drops white space at both ends of the text: the space, tab, line feed, vertical tab
\* (U+000B), form feed, carriage return, next line (U+0085) and the no-break space (U+00A0), the
\* last three written as the characters themselves. The separators U+001C to U+001F, which
\* str.strip drops, stay: float('\x1c7') is a ValueError. Texts are of characters up to U+00FF.
Whitespace == {" ", "\t", "\n", "\r", "\f", "", "", " "}

Between(s, kept) ==
    IF kept = {}
    THEN <<>>
    ELSE SubSeq(s, CHOOSE n \in kept : \A m \in kept : n <= m, CHOOSE n \in kept : \A m \in kept : n >= m)

Strip(s) == Between(s, {n \in 1..Len(s) : s[n] \notin Whitespace})

\* an underscore is allowed between two digits only
UnderscoresOk(s) ==
    \A n \in 1..Len(s) : s[n] = "_" => (n > 1 /\ n < Len(s) /\ IsDigit(s[n - 1]) /\ IsDigit(s[n + 1]))

WithoutUnderscores(s) == SelectSeq(s, LAMBDA c : c # "_")

\* the exponent written by a sequence of digits, MaxExponent when it has more than four
Capped(digits) == IF Len(digits) > 4 THEN MaxExponent ELSE Number(digits)

ExponentOf(s) == Capped(SubSeq(s, LeadingZeros(s) + 1, Len(s)))

\* the float of m * 10^e, m a number of len digits that does not end in 0. Past the largest double
\* (1.797...e308) the value is infinite, up to half the smallest double (2.470...e-324) it is zero;
\* a whole value of up to nine digits is written as that number (7.0 as 7, -1.0 as -1), any other
\* value as the pair <<m, e>> (7.5 as <<75, -1>>); under 1e-308, where the doubles are the
\* multiples of 2^-1074, the value is the multiple nearest to m * 10^e
Nearest(negative, m, len, e) ==
    IF len = 0 \/ len + e < -323 \/ (len + e = -323 /\ m * Pow10(9 - len) <= 247032822)
    THEN 0
    ELSE IF len + e > 309 \/ (len + e = 309 /\ m * Pow10(9 - len) >= 179769314)
    THEN IF negative THEN "-inf" ELSE "inf"
    ELSE IF len + e <= -308
    THEN <<"nearest multiple of 2^-1074", IF negative THEN 0 - m ELSE m, e>>
    ELSE IF e >= 0 /\ len + e <= 9
    THEN (IF negative THEN 0 - m ELSE m) * Pow10(e)
    ELSE <<IF negative THEN 0 - m ELSE m, e>>

\* the zeros at the end of the digits go into the exponent
Normalised(negative, digits, exponent, trailing) ==
    Nearest(negative, Number(SubSeq(digits, 1, Len(digits) - trailing)), Len(digits) - trailing,
            exponent + trailing)

\* the first MaxDigits digits are read
Leading(negative, digits, exponent, dropped) ==
    Normalised(negative, SubSeq(digits, 1, Len(digits) - dropped), exponent + dropped,
               LeadingZeros(Reverse(SubSeq(digits, 1, Len(digits) - dropped))))

Significant(negative, digits, exponent) ==
    Leading(negative, digits, exponent, IF Len(digits) > MaxDigits THEN Len(digits) - MaxDigits ELSE 0)

\* the zeros at the start of the digits count for nothing
Written(negative, digits, exponent) ==
    Significant(negative, SubSeq(digits, LeadingZeros(digits) + 1, Len(digits)), exponent)

\* the float of a numeral: its digits before and after the point, times 10^exponent
FloatValue(negative, body, int_len, frac_len, exponent) ==
    Written(negative, SubSeq(body, 1, int_len) \o SubSeq(body, int_len + 2, int_len + 1 + frac_len),
            exponent - frac_len)

\* a numeral whose mantissa ends at mant_end and whose exponent digits start at exp_start (0: the
\* text ends with the mantissa, -1: something else than e follows): the mantissa needs one digit
\* at least, and so does the exponent, whose digits have to end the text
Numeral(negative, body, int_len, frac_len, exp_start) ==
    IF \/ int_len + frac_len = 0
       \/ exp_start = -1
       \/ exp_start > Len(body)
       \/ exp_start > 0 /\ DigitsFrom(body, exp_start) # Len(body) + 1 - exp_start
    THEN Fails("ValueError")
    ELSE Returns(FloatValue(negative, body, int_len, frac_len,
                            IF exp_start = 0 THEN 0
                            ELSE (IF body[exp_start - 1] = "-" THEN 0 - 1 ELSE 1)
                                     * ExponentOf(SubSeq(body, exp_start, Len(body)))))

\* after the mantissa: the end of the text, or e and a signed exponent
ReadExponent(negative, body, int_len, mant_end) ==
    Numeral(negative, body, int_len, IF mant_end > int_len THEN mant_end - int_len - 1 ELSE 0,
            IF mant_end = Len(body) THEN 0
            ELSE IF Lower(body[mant_end + 1]) # "e" THEN 0 - 1
            ELSE IF At(body, mant_end + 2) \in {"+", "-"} THEN mant_end + 3
            ELSE mant_end + 2)

\* after the digits before the point: a point and the digits after it
ReadPoint(negative, body, int_len) ==
    ReadExponent(negative, body, int_len,
                 IF At(body, int_len + 1) = "." THEN int_len + 1 + DigitsFrom(body, int_len + 2)
                 ELSE int_len)

\* a decimal numeral: digits, a point, digits, and an exponent part e, sign, digits
ParseDecimal(negative, body) == ReadPoint(negative, body, DigitsFrom(body, 1))

ParseWord(negative, body, word) ==
    IF word \in {Chars("inf"), Chars("infinity")}
    THEN Returns(IF negative THEN "-inf" ELSE "inf")
    ELSE IF word = Chars("nan")
    THEN Returns("nan")
    ELSE ParseDecimal(negative, body)

ParseUnsigned(negative, body) == ParseWord(negative, body, [n \in 1..Len(body) |-> Lower(body[n])])

ParseFloat(s) == ParseUnsigned(At(s, 1) = "-", IF At(s, 1) \in {"+", "-"} THEN Tail(s) ELSE s)

ParseStripped(s) == IF UnderscoresOk(s) THEN ParseFloat(WithoutUnderscores(s)) ELSE Fails("ValueError")

\* float(text) of a text of the score column: white space at the ends is dropped, underscores
\* between digits are dropped, then the text is a signed decimal numeral, inf, infinity or nan;
\* every other text (the '.' placeholder, the empty text, a word) raises ValueError
Float(text) == ParseStripped(Strip(Chars(text)))

\* the value of the try statement: the result of float, the old value after a ValueError
ValueOr(r, default) == IF r.raised = "ValueError" THEN default ELSE r.out

\* try: self.score = float(gff_entry.score); except ValueError: pass
ScoreOf(entry, default) == ValueOr(Float(entry.score), default)

FeatureAddData(b, entry) ==
    LET r == NextUniqueId(b.genome.feature_ider, entry.id)
        f == [StructuredFeature EXCEPT !.id = r.id,
                                       !.type = IF entry.parent = <<>> THEN error ELSE entry.type,
                                       !.start = entry.start, !.end = entry.end, !.strand = entry.strand,
                                       !.seqid = entry.seqid, !.score = ScoreOf(entry, @),
                                       !.super_loci = b.sl.self]
        b1 == [sl |-> b.sl, genome |-> [b.genome EXCEPT !.feature_ider = r.m], raised |-> b.raised, f |-> f]
    IN AddDataParents(b1, entry.parent, 1)

FullyOverlaps(f, other) ==
    /\ f.type = other.type
    /\ f.start = other.start
    /\ f.end = other.end
    /\ f.seqid = other.seqid
    /\ f.strand = other.strand
    /\ f.frame = other.frame
    /\ f.super_loci = other.super_loci

IsContainedIn(f, other) ==
    /\ f.seqid = other.seqid
    /\ f.strand = other.strand
    /\ f.frame = other.frame
    /\ f.start >= other.start /\ f.end <= other.end
    /\ f.super_loci = other.super_loci

\* de_link_from_transcript of the feature stored under key, for one transcript id
DeLinkFromTranscript(b, key, transcript_id) ==
    IF transcript_id \notin DOMAIN b.sl.transcripts
    THEN Raise(b, "KeyError")
    ELSE IF ~InSeq(b.sl.transcripts[transcript_id].features, key)
         THEN Raise(b, "ValueError")
         ELSE [b EXCEPT !.sl.transcripts[transcript_id].features = RemoveFirst(@, key),
                        !.sl.features.map[key].transcripts = RemoveFirst(@, transcript_id)]

\* link_to_transcript_and_back of the feature stored under key
LinkStoredFeature(b, key, transcript_id) ==
    LET r == LinkToTranscriptAndBack([sl |-> b.sl, genome |-> b.genome, raised |-> b.raised,
                                      f |-> b.sl.features.map[key]], transcript_id)
    IN [sl |-> [r.sl EXCEPT !.features.map[key] = r.f], genome |-> r.genome, raised |-> r.raised]

\* merge: the loop over a copy of other.transcripts; key is self, o_key is other
RECURSIVE MergeLoop(_, _, _, _, _)
MergeLoop(b, key, o_key, tids, k) ==
    IF k > Len(tids) \/ b.raised # "none"
    THEN b
    ELSE LET b1 == LinkStoredFeature(b, key, tids[k])
             b2 == IF b1.raised # "none" THEN b1 ELSE DeLinkFromTranscript(b1, o_key, tids[k])
         IN MergeLoop(b2, key, o_key, tids, k + 1)

Merge(b, key, o_key) == MergeLoop(b, key, o_key, b.sl.features.map[o_key].transcripts, 1)

\* clone: works on [sl, genome, raised] and returns it with the new feature in field f
RECURSIVE CloneLinks(_, _, _)
CloneLinks(b, tids, k) ==
    IF k > Len(tids) \/ b.raised # "none"
    THEN b
    ELSE CloneLinks(LinkToTranscriptAndBack(b, tids[k]), tids, k + 1)

Clone(b, f, copy_transcripts) ==
    IF f.super_loci = None
    THEN [sl |-> b.sl, genome |-> b.genome, raised |-> "AttributeError", f |-> StructuredFeature]
    ELSE LET r == NextUniqueId(b.genome.feature_ider, None)
             new == [StructuredFeature EXCEPT !.super_loci = f.super_loci, !.id = r.id]
             b1 == [sl |-> b.sl, genome |-> [b.genome EXCEPT !.feature_ider = r.m], raised |-> b.raised,
                    f |-> new]
             b2 == IF copy_transcripts THEN CloneLinks(b1, f.transcripts, 1) ELSE b1
         IN [b2 EXCEPT !.f = [f EXCEPT !.super_loci = b2.f.super_loci, !.id = b2.f.id,
                                       !.transcripts = b2.f.transcripts]]

ReconstructExon(b, f) ==
    LET c == Clone(b, f, TRUE)
    IN [c EXCEPT !.f.type = exon]

(* ---------------------------------------------------------------------- *)
(* SuperLoci                                                               *)
(* ---------------------------------------------------------------------- *)
AddGffEntry(b, entry) ==
    IF entry.type = gene
    THEN [b EXCEPT !.sl.type = gene, !.sl.id = entry.id, !.sl.ids = Append(@, entry.id)]
    ELSE IF entry.type \in transcribed
    THEN IF Len(entry.parent) # 1 \/ entry.parent[1] # b.sl.id
         THEN Raise(b, "AssertionError")
         ELSE LET t == TranscribedAddData(b.sl.self, entry)
                  detach == /\ b.sl.dummy # <<>>
                            /\ b.sl.dummy[1].attached
                            /\ b.sl.dummy[1].id = t.id
              IN [b EXCEPT !.sl.transcripts = (t.id :> t) @@ @,
                           !.sl.transcripts_order = KeysAfterPut(@, b.sl.transcripts, t.id),
                           !.sl.dummy = IF detach
                                        THEN <<[id |-> t.id, attached |-> FALSE, obj |-> b.sl.transcripts[t.id]]>>
                                        ELSE @]
    ELSE IF entry.type \in on_sequence
    THEN LET r == FeatureAddData(b, entry)
         IN IF r.raised # "none"
            THEN [sl |-> r.sl, genome |-> r.genome, raised |-> r.raised]
            ELSE [sl |-> [r.sl EXCEPT !.features = DictPut(@, r.f.id, r.f)], genome |-> r.genome,
                  raised |-> r.raised]
    ELSE b

\* _mark_erroneous that leaves the span of the new feature at its default
MarkErroneousDefaultSpan(b, entry) ==
    IF entry.type \notin gene_level
    THEN Raise(b, "AssertionError")
    ELSE LET r == NextUniqueId(b.genome.feature_ider, None)
             f == [StructuredFeature EXCEPT !.type = error, !.id = r.id]
         IN [b EXCEPT !.genome.feature_ider = r.m, !.sl.features = DictPut(@, f.id, f)]

MarkErroneous(b, entry) ==
    IF entry.type \notin gene_level
    THEN Raise(b, "AssertionError")
    ELSE LET r == NextUniqueId(b.genome.feature_ider, None)
             f == [StructuredFeature EXCEPT !.start = entry.start, !.end = entry.end, !.type = error,
                                            !.id = r.id]
         IN [b EXCEPT !.genome.feature_ider = r.m, !.sl.features = DictPut(@, f.id, f)]

\* sorted(features.keys())
SortedKeys(features) == SelectSeq(SortedIds, LAMBDA x : x \in DOMAIN features.map)

\* the inner loop of collapse_identical_features leaving after its first pass
CollapseInnerOnce(b, feature_keys, i, j) ==
    IF j > Len(feature_keys) \/ b.raised # "none"
    THEN b
    ELSE IF FullyOverlaps(b.sl.features.map[feature_keys[i]], b.sl.features.map[feature_keys[j]])
         THEN LET m == Merge(b, feature_keys[i], feature_keys[j])
              IN IF m.raised # "none" THEN m ELSE [m EXCEPT !.sl.features = DictPop(@, feature_keys[j])]
         ELSE b

\* for j in range(i + 1, len(feature_keys)), with feature_keys the snapshot taken for this i
RECURSIVE CollapseInner(_, _, _, _)
CollapseInner(b, feature_keys, i, j) ==
    IF j > Len(feature_keys) \/ b.raised # "none"
    THEN b
    ELSE LET key == feature_keys[i]
             o_key == feature_keys[j]
         IN IF FullyOverlaps(b.sl.features.map[key], b.sl.features.map[o_key])
            THEN LET m == Merge(b, key, o_key)
                 IN CollapseInner(IF m.raised # "none" THEN m
                                  ELSE [m EXCEPT !.sl.features = DictPop(@, o_key)],
                                  feature_keys, i, j + 1)
            ELSE CollapseInner(b, feature_keys, i, j + 1)

\* while i < len(features) - 1; i counts from 1 here
RECURSIVE CollapseOuter(_, _)
CollapseOuter(b, i) ==
    IF ~(i < Len(b.sl.features.order)) \/ b.raised # "none"
    THEN b
    ELSE CollapseOuter(CollapseInner(b, SortedKeys(b.sl.features), i, i + 1), i + 1)

CollapseIdenticalFeatures(b) == CollapseOuter(b, 1)

Exons(s) == SelectSeq(DictValues(s.features), LAMBDA f : f.type = exon)

CodingInfoFeatures(s) == SelectSeq(DictValues(s.features), LAMBDA f : f.type \in coding_info)

\* the first loop of maybe_reconstruct_exons: b carries the list new_exons
RECURSIVE ReconstructLoop(_, _, _, _)
ReconstructLoop(b, exons, coding, k) ==
    IF k > Len(coding) \/ b.raised # "none"
    THEN b
    ELSE IF \E n \in 1..Len(exons) : IsContainedIn(coding[k], exons[n])
         THEN ReconstructLoop(b, exons, coding, k + 1)
         ELSE LET r == ReconstructExon([sl |-> b.sl, genome |-> b.genome, raised |-> b.raised], coding[k])
              IN ReconstructLoop([sl |-> r.sl, genome |-> r.genome, raised |-> r.raised,
                                  new_exons |-> IF r.raised # "none" THEN b.new_exons
                                                ELSE Append(b.new_exons, r.f)],
                                 exons, coding, k + 1)

RECURSIVE StoreExons(_, _, _)
StoreExons(features, new_exons, k) ==
    IF k > Len(new_exons)
    THEN features
    ELSE StoreExons(DictPut(features, new_exons[k].id, new_exons[k]), new_exons, k + 1)

MaybeReconstructExons(b) ==
    LET r == ReconstructLoop([sl |-> b.sl, genome |-> b.genome, raised |-> b.raised, new_exons |-> <<>>],
                             Exons(b.sl), CodingInfoFeatures(b.sl), 1)
    IN IF r.raised # "none"
       THEN [sl |-> r.sl, genome |-> r.genome, raised |-> r.raised]
       ELSE [sl |-> [r.sl EXCEPT !.features = StoreExons(@, r.new_exons, 1)], genome |-> r.genome,
             raised |-> r.raised]

CheckAndFixStructure(b, group) ==
    LET b1 == IF b.sl.features.order = <<>> THEN MarkErroneous(b, group[1]) ELSE b
        b2 == IF b1.raised # "none" THEN b1 ELSE CollapseIdenticalFeatures(b1)
    IN IF b2.raised # "none" THEN b2 ELSE MaybeReconstructExons(b2)

RECURSIVE AddEntries(_, _, _)
AddEntries(b, group, k) ==
    IF k > Len(group) \/ b.raised # "none"
    THEN b
    ELSE AddEntries(AddGffEntry(b, group[k]), group, k + 1)

AddGffEntryGroup(b, group) ==
    LET b1 == AddEntries(b, group, 1)
    IN IF b1.raised # "none" THEN b1 ELSE CheckAndFixStructure(b1, group)

(* ---------------------------------------------------------------------- *)
(* AnnotatedGenome: filtering and grouping of the entries of a gff file    *)
(* ---------------------------------------------------------------------- *)
skipable == regions \cup ignorable

\* useful_gff_entries without the check of the vocabulary
UsefulGffEntryUnchecked(entry) ==
    IF entry.type \notin skipable THEN "yield" ELSE "skip"

\* what useful_gff_entries does with one entry of the reader
UsefulGffEntry(entry) ==
    IF entry.type \notin known THEN "raise"
    ELSE IF entry.type \notin skipable THEN "yield"
    ELSE "skip"

\* group_gff_by_gene closes the running group in front of this entry
StartsGroup(entry) == entry.type = "gene"

(* ---------------------------------------------------------------------- *)
(* StructuredFeature: coordinates in the direction of transcription         *)
(* ---------------------------------------------------------------------- *)
TSS == "TSS"

TTS == "TTS"

start_codon == "start_codon"

stop_codon == "stop_codon"

donor_splice_site == "donor_splice_site"

acceptor_splice_site == "acceptor_splice_site"

five_prime_UTR == "five_prime_UTR"

three_prime_UTR == "three_prime_UTR"

status_coding == "status_coding"

status_intron == "status_intron"

status_five_prime_UTR == "status_five_prime_UTR"

status_three_prime_UTR == "status_three_prime_UTR"

status_intergenic == "status_intergenic"

\* is_plus_strand raises ValueError unless this holds
StrandKnown(f) == f.strand \in {"+", "-"}

IsPlusStrand(f) == f.strand = "+"

Upstream(f) == IF IsPlusStrand(f) THEN f.start ELSE f.end

Downstream(f) == IF IsPlusStrand(f) THEN f.end ELSE f.start

\* upstream_from_interval that takes every feature for one of the plus strand
UpstreamFromIntervalPlusOnly(f, interval) == interval.begin + 1

UpstreamFromInterval(f, interval) == IF IsPlusStrand(f) THEN interval.begin + 1 ELSE interval.end

DownstreamFromInterval(f, interval) == IF IsPlusStrand(f) THEN interval.end ELSE interval.begin + 1

(* ---------------------------------------------------------------------- *)
(* intervaltree: Interval is (begin, end, data), data is the key of the    *)
(* feature; a tree is the set of its intervals                             *)
(* ---------------------------------------------------------------------- *)
Interval(begin, end, data) == [begin |-> begin, end |-> end, data |-> data]

Boundaries(tree) == {iv.begin : iv \in tree} \cup {iv.end : iv \in tree}

\* split_overlaps that cuts nothing
SplitOverlapsNoCut(tree) == tree

\* IntervalTree.split_overlaps: every interval is cut at every boundary that lies in it
SplitOverlaps(tree) ==
    IF tree = {} \/ Cardinality(Boundaries(tree)) = 2
    THEN tree
    ELSE LET bounds == Boundaries(tree)
             ubound(lbound) == CHOOSE u \in bounds : u > lbound /\ \A v \in bounds : v > lbound => u <= v
         IN UNION {{Interval(lbound, ubound(lbound), iv.data) :
                        iv \in {i \in tree : i.begin <= lbound /\ lbound < i.end}} :
                   lbound \in {l \in bounds : \E v \in bounds : v > l}}

\* the intervals that no interval of the tree comes before, by (begin, end)
Lowest(tree) ==
    {a \in tree : \A b \in tree : a.begin < b.begin \/ (a.begin = b.begin /\ a.end <= b.end)}

\* sorted(tree): by (begin, end). Intervals with the same span compare equal (their data, a
\* feature, has no order), so the sort leaves them in the order in which the set of the tree hands
\* them out, which depends on how the set stores them: every order of theirs is a list the call
\* can return. Sorted is the set of those lists
RECURSIVE Sorted(_)
Sorted(tree) ==
    IF tree = {}
    THEN {<<>>}
    ELSE UNION {{<<a>> \o rest : rest \in Sorted(tree \ {a})} : a \in Lowest(tree)}

(* ---------------------------------------------------------------------- *)
(* TranscriptInterpreter                                                   *)
(* ---------------------------------------------------------------------- *)
\* __init__: transcript.super_loci.genome fails on a transcript without its back-reference (the
\* dummy transcript); features starts empty
TranscriptInterpreter(s, transcript_id) ==
    IF s.transcripts[transcript_id].super_loci = None
    THEN Fails("AttributeError")
    ELSE Returns([transcript |-> transcript_id, features |-> <<>>])

\* get_status that remembers the intron status at a donor splice site
GetStatusDonorRemembered(last_seen, pre_intron) ==
    IF last_seen \in statuses THEN Returns(<<last_seen, pre_intron>>)
    ELSE IF last_seen = TSS THEN Returns(<<status_five_prime_UTR, status_five_prime_UTR>>)
    ELSE IF last_seen = start_codon THEN Returns(<<status_coding, status_coding>>)
    ELSE IF last_seen = stop_codon THEN Returns(<<status_three_prime_UTR, status_three_prime_UTR>>)
    ELSE IF last_seen = TTS THEN Returns(<<status_intergenic, status_intergenic>>)
    ELSE IF last_seen = donor_splice_site THEN Returns(<<status_intron, status_intron>>)
    ELSE IF last_seen = acceptor_splice_site THEN Returns(<<pre_intron, pre_intron>>)
    ELSE Fails("ValueError")

\* get_status that stays in the intron at an acceptor splice site
GetStatusNoRestore(last_seen, pre_intron) ==
    IF last_seen \in statuses THEN Returns(<<last_seen, pre_intron>>)
    ELSE IF last_seen = TSS THEN Returns(<<status_five_prime_UTR, status_five_prime_UTR>>)
    ELSE IF last_seen = start_codon THEN Returns(<<status_coding, status_coding>>)
    ELSE IF last_seen = stop_codon THEN Returns(<<status_three_prime_UTR, status_three_prime_UTR>>)
    ELSE IF last_seen = TTS THEN Returns(<<status_intergenic, status_intergenic>>)
    ELSE IF last_seen = donor_splice_site THEN Returns(<<status_intron, pre_intron>>)
    ELSE IF last_seen = acceptor_splice_site THEN Returns(<<status_intron, pre_intron>>)
    ELSE Fails("ValueError")

GetStatus(last_seen, pre_intron) ==
    IF last_seen \in statuses THEN Returns(<<last_seen, pre_intron>>)
    ELSE IF last_seen = TSS THEN Returns(<<status_five_prime_UTR, status_five_prime_UTR>>)
    ELSE IF last_seen = start_codon THEN Returns(<<status_coding, status_coding>>)
    ELSE IF last_seen = stop_codon THEN Returns(<<status_three_prime_UTR, status_three_prime_UTR>>)
    ELSE IF last_seen = TTS THEN Returns(<<status_intergenic, status_intergenic>>)
    ELSE IF last_seen = donor_splice_site THEN Returns(<<status_intron, pre_intron>>)
    ELSE IF last_seen = acceptor_splice_site THEN Returns(<<pre_intron, pre_intron>>)
    ELSE Fails("ValueError")

\* [x.data.type for x in intervals] as a set
ObservedTypes(s, intervals) == {s.features.map[intervals[n].data].type : n \in 1..Len(intervals)}

\* possible_types without the check of the number of intervals
PossibleTypesAnyLength(s, intervals) ==
    LET set_o_types == ObservedTypes(s, intervals)
    IN IF set_o_types = {exon, five_prime_UTR} \/ set_o_types = {five_prime_UTR}
       THEN Returns(<<five_prime_UTR>>)
       ELSE IF set_o_types = {exon, three_prime_UTR} \/ set_o_types = {three_prime_UTR}
       THEN Returns(<<three_prime_UTR>>)
       ELSE IF set_o_types = {exon}
       THEN Returns(<<five_prime_UTR, three_prime_UTR>>)
       ELSE IF set_o_types = {cds, exon} \/ set_o_types = {cds}
       THEN Returns(<<cds>>)
       ELSE Fails("ValueError")

PossibleTypes(s, intervals) ==
    LET set_o_types == ObservedTypes(s, intervals)
    IN IF Len(intervals) \notin {1, 2} THEN Fails("ValueError")
       ELSE IF set_o_types = {exon, five_prime_UTR} \/ set_o_types = {five_prime_UTR}
       THEN Returns(<<five_prime_UTR>>)
       ELSE IF set_o_types = {exon, three_prime_UTR} \/ set_o_types = {three_prime_UTR}
       THEN Returns(<<three_prime_UTR>>)
       ELSE IF set_o_types = {exon}
       THEN Returns(<<five_prime_UTR, three_prime_UTR>>)
       ELSE IF set_o_types = {cds, exon} \/ set_o_types = {cds}
       THEN Returns(<<cds>>)
       ELSE Fails("ValueError")

\* the tree organize_and_split_features fills from self.features
TreeOf(s, ids) ==
    {Interval(s.features.map[ids[n]].start - 1, s.features.map[ids[n]].end, ids[n]) : n \in 1..Len(ids)}

\* the loop that cuts the sorted intervals into lists of intervals with the same begin
RECURSIVE GroupByBegin(_, _, _, _)
GroupByBegin(intervals, k, out, done) ==
    IF k > Len(intervals)
    THEN Append(done, out)
    ELSE IF out[Len(out)].begin = intervals[k].begin
         THEN GroupByBegin(intervals, k + 1, Append(out, intervals[k]), done)
         ELSE GroupByBegin(intervals, k + 1, <<intervals[k]>>, Append(done, out))

\* list(organize_and_split_features()): the outcomes the call can have, one for every list
\* sorted(tree) can return; next() on the empty tree raises StopIteration inside the generator,
\* which leaves it as RuntimeError
OrganizeAndSplitFeatures(s, interp) ==
    IF \E n \in 1..Len(interp.features) : interp.features[n] \notin DOMAIN s.features.map
    THEN {Fails("KeyError")}
    ELSE IF \E n \in 1..Len(interp.features) :
                s.features.map[interp.features[n]].start - 1 >= s.features.map[interp.features[n]].end
    THEN {Fails("ValueError")}
    ELSE IF interp.features = <<>>
    THEN {Fails("RuntimeError")}
    ELSE {Returns(GroupByBegin(intervals, 2, <<intervals[1]>>, <<>>)) :
              intervals \in Sorted(SplitOverlaps(TreeOf(s, interp.features)))}

\* intervals_5to3: the outcomes the call can have
Intervals5to3(s, interp, plus_strand) ==
    {IF r.raised # "none" \/ plus_strand THEN r ELSE Returns(Reverse(r.out)) :
         r \in OrganizeAndSplitFeatures(s, interp)}

GetSeqLength(g, seqid) == g.meta_info_sequences.map[seqid].total_bp

error_buffer == 2000

\* a call that works on the SuperLoci and the allocators: what it leaves of them, and its result
Outcome(b, raised_, out) == [sl |-> b.sl, genome |-> b.genome, raised |-> raised_, out |-> out]

\* interpret_first_pos; the branch for a CDS start takes an Interval for a feature, and its first
\* statement, cds_feature.clone(), raises AttributeError: an Interval has no clone
InterpretFirstPos(b, intervals, plus_strand) ==
    IF intervals = <<>> THEN Outcome(b, "IndexError", <<>>)
    ELSE LET i0 == intervals[1]
             f0 == b.sl.features.map[i0.data]
             possible_types == PossibleTypes(b.sl, intervals)
         IN IF ~StrandKnown(f0) THEN Outcome(b, "ValueError", <<>>)
            ELSE IF possible_types.raised # "none" THEN Outcome(b, possible_types.raised, <<>>)
            ELSE IF InSeq(possible_types.out, five_prime_UTR)
            THEN LET c == Clone(b, f0, TRUE)
                     at == UpstreamFromInterval(f0, i0)
                     feature0 == [c.f EXCEPT !.type = TSS, !.start = at, !.end = at]
                 IN IF c.raised # "none" THEN Outcome(c, c.raised, <<>>)
                    ELSE Outcome(c, "none", <<<<feature0>>, five_prime_UTR>>)
            ELSE IF InSeq(possible_types.out, cds)
            THEN Outcome(b, "AttributeError", <<>>)
            ELSE Outcome(b, "ValueError", <<>>)

\* status_in == self.gffkey.five_prime_UTR: status_in is the pair get_status returns, and a pair
\* never equals a string
PairEqualsString(pair, string) == FALSE

\* the intron branch of interpret_transition
InterpretIntron(b, donor_template, acceptor_template, sign) ==
    IF ~StrandKnown(donor_template) \/ ~StrandKnown(acceptor_template)
    THEN Outcome(b, "ValueError", <<>>)
    ELSE IF ~(Downstream(donor_template) * sign < Upstream(acceptor_template) * sign)
    THEN Outcome(b, "AssertionError", <<>>)
    ELSE LET c1 == Clone(b, donor_template, TRUE)
             donor == [c1.f EXCEPT !.start = Downstream(c1.f) + sign, !.end = Downstream(c1.f) + sign]
             c2 == Clone([sl |-> c1.sl, genome |-> c1.genome, raised |-> c1.raised], acceptor_template, TRUE)
             acceptor == [c2.f EXCEPT !.start = Upstream(c2.f) - sign, !.end = Upstream(c2.f) - sign]
         IN IF c1.raised # "none" THEN Outcome(c1, c1.raised, <<>>)
            ELSE IF c2.raised # "none" THEN Outcome(c2, c2.raised, <<>>)
            ELSE Outcome(c2, "none", <<<<donor, acceptor>>>>)

\* interpret_transition returns the 1-tuple (new_features,); in the start codon branch the first
\* assert reads cds_template.begin, which no StructuredFeature has
InterpretTransition(b, last_feature, pre_intron_status, ivals_before, ivals_after, plus_strand) ==
    LET status_in == GetStatus(last_feature.type, pre_intron_status)
        sign == IF plus_strand THEN 1 ELSE -1
        before_types == PossibleTypes(b.sl, ivals_before)
        after_types == PossibleTypes(b.sl, ivals_after)
    IN IF status_in.raised # "none" THEN Outcome(b, status_in.raised, <<>>)
       ELSE IF before_types.raised # "none" THEN Outcome(b, before_types.raised, <<>>)
       ELSE IF after_types.raised # "none" THEN Outcome(b, after_types.raised, <<>>)
       ELSE IF PairEqualsString(status_in.out, five_prime_UTR)
       THEN IF InSeq(before_types.out, five_prime_UTR) /\ InSeq(after_types.out, cds)
            THEN Outcome(b, "AttributeError", <<>>)
            ELSE IF InSeq(before_types.out, five_prime_UTR) /\ InSeq(after_types.out, five_prime_UTR)
            THEN InterpretIntron(b, b.sl.features.map[ivals_before[1].data],
                                 b.sl.features.map[ivals_after[1].data], sign)
            ELSE Outcome(b, "ValueError", <<>>)
       ELSE Outcome(b, "none", <<<<>>>>)

(* ---------------------------------------------------------------------- *)
(* Inputs                                                                  *)
(* ---------------------------------------------------------------------- *)
Entry(type, id, parent, start, end) ==
    [type |-> type, id |-> id, parent |-> parent, start |-> start, end |-> end, strand |-> "+",
     seqid |-> "chr1", score |-> ".", source |-> "src"]

GeneEntry == Entry("gene", "g1", <<>>, 1, 9)

\* texts of the score column other than the placeholder: whole numbers, a word, nothing, a number
\* with a fraction, a numeral with white space, an underscore and an exponent, and not-a-number
ScoreTexts == {"7", "10", "abc", "", "7.5", " 1_0e-1 ", "nan"}

Spans == {<<1, 2>>, <<1, 3>>, <<2, 3>>}

TranscriptEntries ==
    {Entry("mRNA", "t1", <<"g1">>, 1, 9), Entry("mRNA", "trx000000", <<"g1">>, 1, 9),
     Entry("mRNA", "t1", <<"g2">>, 1, 9)}

FeatureEntries ==
    {Entry(t, i, p, s[1], s[2]) : t \in {exon, cds}, i \in {None, "ftr000000"},
                                  p \in {<<"g1">>, <<"t1">>}, s \in Spans}
    \cup {Entry("five_prime_UTR", None, <<"g1">>, s[1], s[2]) : s \in Spans}
    \cup {Entry(t, "a", <<"g1">>, 1, 2) : t \in {exon, cds}}
    \cup {Entry(cds, "b", <<"g1">>, 2, 3)}
    \cup {Entry(exon, None, <<>>, 1, 2)}
    \cup {[Entry(exon, None, <<"t1">>, 1, 2) EXCEPT !.score = score] : score \in ScoreTexts}

GffEntries ==
    {GeneEntry, Entry("gene", "g2", <<>>, 5, 9), Entry("pseudogene", "p1", <<>>, 1, 9),
     Entry("mRNA", "t1", <<"g1">>, 1, 9), Entry(exon, None, <<"g1">>, 1, 3),
     Entry("region", None, <<>>, 1, 9), Entry("bogus", None, <<>>, 1, 9)}

\* the sequences of the genome the gff file annotates
Sequences == <<[seqid |-> "chr1", total_bp |-> 9]>>

SeqsUpTo(S, n) == UNION {[1..k -> S] : k \in 0..n}

EntryOn(type, id, parent, start, end, strand) == [Entry(type, id, parent, start, end) EXCEPT !.strand = strand]

\* spans of the features of a transcript: overlapping, adjacent and apart
InterpSpans == <<<<1, 3>>, <<2, 5>>, <<4, 6>>, <<7, 8>>>>

InterpTypes == <<exon, cds, five_prime_UTR, three_prime_UTR>>

\* the feature entries of a gene g1 on one strand, in the order of the file: children of the
\* transcript t1, and last an exon that names the gene as its parent (it gets a dummy transcript)
InterpEntries(strand) ==
    [n \in 1..16 |-> EntryOn(InterpTypes[((n - 1) % 4) + 1], None, <<"t1">>,
                             InterpSpans[((n - 1) \div 4) + 1][1], InterpSpans[((n - 1) \div 4) + 1][2], strand)]
    \o <<EntryOn(exon, "ftr000000", <<"t1">>, 1, 3, strand), EntryOn(exon, None, <<"g1">>, 1, 3, strand)>>

RECURSIVE Pick(_, _, _)
Pick(s, chosen, k) ==
    IF k > Len(s) THEN <<>>
    ELSE (IF k \in chosen THEN <<s[k]>> ELSE <<>>) \o Pick(s, chosen, k + 1)

\* the sub-lists of a list, order kept
SubLists(s) == {Pick(s, chosen, 1) : chosen \in SUBSET (1..Len(s))}

\* a gene with one transcript and up to MaxFeatures feature entries
InterpGroups ==
    {<<EntryOn("gene", "g1", <<>>, 1, 9, strand), EntryOn("mRNA", "t1", <<"g1">>, 1, 9, strand)>>
         \o Pick(InterpEntries(strand), chosen, 1) :
     strand \in {"+", "-"},
     chosen \in {c \in SUBSET (1..18) : Cardinality(c) <= MaxFeatures}}

(* ---------------------------------------------------------------------- *)
(* Initial states                                                          *)
(* ---------------------------------------------------------------------- *)
IdsIdle == idm = IDMaker("ftr") /\ issued = <<>>

GroupIdle == /\ sl = SuperLoci(Handle(1))
             /\ entries = <<>>
             /\ pc = "ingest"
             /\ raised = "none"
             /\ ncollapse = 0

GffIdle == /\ gff = <<>>
           /\ rpos = 0
           /\ gene_group = <<>>
           /\ gpc = "first"
           /\ super_loci = <<>>
           /\ yielded = <<>>
           /\ outcome = "running"

InterpIdle == /\ ti = <<>>
              /\ interval_sets = <<>>
              /\ ipc = "start"
              /\ call = [op |-> "none"]

JsonIdle == exported = <<>> /\ imported = <<>>


Init == IdsIdle /\ GroupIdle /\ GffIdle /\ InterpIdle /\ JsonIdle /\ genome = Genome

(* ---------------------------------------------------------------------- *)
(* IDMaker.next_unique_id on one instance                                  *)
(* ---------------------------------------------------------------------- *)
Suggestions == {"a", "b", "ftr000000", "ftr000001"}

CallNextUniqueId(suggestion) ==
    /\ Len(issued) < MaxCalls
    /\ LET r == NextUniqueId(idm, suggestion)
       IN idm' = r.m /\ issued' = Append(issued, r.id)
    /\ UNCHANGED <<genome, groupVars, gffVars, interpVars, jsonVars>>

NextUniqueIdSuggested == \E s \in Suggestions : CallNextUniqueId(s)

NextUniqueIdPlain == CallNextUniqueId(None)

NextIds == NextUniqueIdSuggested \/ NextUniqueIdPlain

SpecIds == Init /\ [][NextIds]_vars

(* ---------------------------------------------------------------------- *)
(* SuperLoci.add_gff_entry_group on one entry group, step by step          *)
(* ---------------------------------------------------------------------- *)
Cur == [sl |-> sl, genome |-> genome, raised |-> raised]

\* the effect of one step of add_gff_entry_group that leads to position next unless it raises
Step(r, next) ==
    /\ sl' = r.sl
    /\ genome' = r.genome
    /\ raised' = r.raised
    /\ pc' = IF r.raised # "none" THEN "raised" ELSE next

AddEntry(entry) ==
    /\ pc = "ingest"
    /\ Step(AddGffEntry(Cur, entry), "ingest")
    /\ entries' = Append(entries, entry)
    /\ UNCHANGED <<ncollapse, idVars, gffVars, interpVars, jsonVars>>

AddGeneEntry == entries = <<>> /\ AddEntry(GeneEntry)

AddTranscriptEntry ==
    /\ entries # <<>>
    /\ Len(entries) <= MaxEntries
    /\ \E e \in TranscriptEntries : AddEntry(e)

AddFeatureEntry ==
    /\ entries # <<>>
    /\ Len(entries) <= MaxEntries
    /\ \E e \in FeatureEntries : AddEntry(e)

\* check_and_fix_structure, first statement
MarkStep ==
    /\ pc = "ingest"
    /\ entries # <<>>
    /\ Step(IF sl.features.order = <<>> THEN MarkErroneous(Cur, entries[1]) ELSE Cur, "collapse")
    /\ UNCHANGED <<entries, ncollapse, idVars, gffVars, interpVars, jsonVars>>

CollapseStep ==
    /\ pc = "collapse"
    /\ Step(CollapseIdenticalFeatures(Cur), "exons")
    /\ UNCHANGED <<entries, ncollapse, idVars, gffVars, interpVars, jsonVars>>

ExonsStep ==
    /\ pc = "exons"
    /\ Step(MaybeReconstructExons(Cur), "normalized")
    /\ UNCHANGED <<entries, ncollapse, idVars, gffVars, interpVars, jsonVars>>

\* collapse_identical_features called again on the normalized SuperLoci
CollapseCall ==
    /\ pc = "normalized"
    /\ ncollapse < MaxCollapseCalls
    /\ Step(CollapseIdenticalFeatures(Cur), "normalized")
    /\ ncollapse' = ncollapse + 1
    /\ UNCHANGED <<entries, idVars, gffVars, interpVars, jsonVars>>

NextGroup ==
    \/ AddGeneEntry
    \/ AddTranscriptEntry
    \/ AddFeatureEntry
    \/ MarkStep
    \/ CollapseStep
    \/ ExonsStep
    \/ CollapseCall

Spec == Init /\ [][NextGroup]_vars

(* ---------------------------------------------------------------------- *)
(* GenericData: to_jsonable and load_jsonable                              *)
(* ---------------------------------------------------------------------- *)
\* the spec of each class, one row for every attribute: attribute name, exported_to_json,
\* expected_inner_type, data_structure
Row(key, is_exported, expected_type, data_structure) ==
    [key |-> key, exported |-> is_exported, type |-> expected_type, structure |-> data_structure]

GenericDataSpec == <<Row("spec", FALSE, "list", None)>>

AnnotatedGenomeSpec ==
    GenericDataSpec \o <<Row("super_loci", TRUE, "SuperLoci", "list"),
                         Row("meta_info", TRUE, "MetaInfoAnnoGenome", None),
                         Row("meta_info_sequences", TRUE, "MetaInfoAnnoSequence", "dict"),
                         Row("gffkey", FALSE, "FeatureDecoder", None),
                         Row("transcript_ider", FALSE, "IDMaker", None),
                         Row("feature_ider", FALSE, "IDMaker", None)>>

MetaInfoAnnotationSpec ==
    GenericDataSpec \o <<Row("number_genes", TRUE, "int", None),
                         Row("bp_intergenic", TRUE, "int", None),
                         Row("bp_coding", TRUE, "int", None),
                         Row("bp_intronic", TRUE, "int", None),
                         Row("bp_3pUTR", TRUE, "int", None),
                         Row("bp_5pUTR", TRUE, "int", None)>>

MetaInfoAnnoGenomeSpec ==
    MetaInfoAnnotationSpec \o <<Row("species", TRUE, "str", None),
                                Row("accession", TRUE, "str", None),
                                Row("version", TRUE, "str", None),
                                Row("acquired_from", TRUE, "str", None)>>

MetaInfoAnnoSequenceSpec ==
    MetaInfoAnnotationSpec \o <<Row("seqid", TRUE, "str", None),
                                Row("total_bp", TRUE, "int", None)>>

FeatureLikeSpec ==
    GenericDataSpec \o <<Row("id", TRUE, "str", None),
                         Row("type", TRUE, "str", None),
                         Row("is_partial", TRUE, "bool", None),
                         Row("is_reconstructed", TRUE, "bool", None),
                         Row("is_type_in_question", TRUE, "bool", None)>>

SuperLociSpec ==
    FeatureLikeSpec \o <<Row("transcripts", TRUE, "Transcribed", "dict"),
                         Row("features", TRUE, "StructuredFeature", "dict"),
                         Row("ids", TRUE, "list", None),
                         Row("genome", FALSE, "AnnotatedGenome", None),
                         Row("_dummy_transcript", FALSE, "Transcribed", None)>>

TranscribedSpec ==
    FeatureLikeSpec \o <<Row("super_loci", FALSE, "SuperLoci", None),
                         Row("features", TRUE, "list", None)>>

StructuredFeatureSpec ==
    FeatureLikeSpec \o <<Row("start", TRUE, "int", None),
                         Row("end", TRUE, "int", None),
                         Row("seqid", TRUE, "str", None),
                         Row("strand", TRUE, "str", None),
                         Row("score", TRUE, "float", None),
                         Row("source", TRUE, "str", None),
                         Row("frame", TRUE, "str", None),
                         Row("transcripts", FALSE, "list", None),
                         Row("super_loci", FALSE, "SuperLoci", None)>>

\* the classes derived from GenericData
GenericDataClasses == {"AnnotatedGenome", "MetaInfoAnnoGenome", "MetaInfoAnnoSequence", "SuperLoci",
                       "Transcribed", "StructuredFeature"}

\* self.spec of an object of the class
SpecOf(class) ==
    CASE class = "AnnotatedGenome" -> AnnotatedGenomeSpec
      [] class = "MetaInfoAnnoGenome" -> MetaInfoAnnoGenomeSpec
      [] class = "MetaInfoAnnoSequence" -> MetaInfoAnnoSequenceSpec
      [] class = "SuperLoci" -> SuperLociSpec
      [] class = "Transcribed" -> TranscribedSpec
      [] class = "StructuredFeature" -> StructuredFeatureSpec

\* get_key_spec: the one row of the spec for the key, AssertionError when there is none
GetKeySpec(class, key) ==
    LET key_spec == SelectSeq(SpecOf(class), LAMBDA s : s.key = key)
    IN IF Len(key_spec) = 1 THEN [raised |-> "none", out |-> key_spec[1]]
       ELSE [raised |-> "AssertionError", out |-> <<>>]

\* the Python type of the value to_jsonable gives for an attribute of the spec: a list, a dict, the
\* dict of a nested object or the scalar
JsonType(row) ==
    IF row.structure # None THEN row.structure
    ELSE IF row.type \in GenericDataClasses THEN "dict"
    ELSE row.type

\* the exported keys of the spec of each class, in the order of __dict__
MetaInfoAnnotationKeys == <<"number_genes", "bp_intergenic", "bp_coding", "bp_intronic", "bp_3pUTR", "bp_5pUTR">>

MetaInfoAnnoGenomeKeys == MetaInfoAnnotationKeys \o <<"species", "accession", "version", "acquired_from">>

MetaInfoAnnoSequenceKeys == MetaInfoAnnotationKeys \o <<"seqid", "total_bp">>

FeatureLikeKeys == <<"id", "type", "is_partial", "is_reconstructed", "is_type_in_question">>

AnnotatedGenomeKeys == <<"super_loci", "meta_info", "meta_info_sequences">>

SuperLociKeys == FeatureLikeKeys \o <<"transcripts", "features", "ids">>

TranscribedKeys == FeatureLikeKeys \o <<"features">>

StructuredFeatureKeys == FeatureLikeKeys \o <<"start", "end", "seqid", "strand", "frame", "score", "source">>

\* a dict of a json: the keys in order, their values, and the Python type of each value ("str",
\* "int", "float", "bool", "NoneType", "list" or "dict"); the lists that are walked hold dicts
JsonDict(keys, values, types) ==
    [order |-> keys,
     map |-> [k \in {keys[n] : n \in 1..Len(keys)} |-> values[k]],
     types |-> [k \in {keys[n] : n \in 1..Len(keys)} |-> types[k]]]

\* the dict to_jsonable builds: the exported keys in the order of the walk, and their cleaned values
Jsonable(class, keys, values) ==
    JsonDict(keys, values, [k \in {keys[n] : n \in 1..Len(keys)} |-> JsonType(GetKeySpec(class, k).out)])

\* the dict _prep_dict builds towards json: one dict for every object
JsonDictOfObjects(order, map) == [order |-> order, map |-> map, types |-> [k \in DOMAIN map |-> "dict"]]

\* list.index
IndexOf(list, x) == CHOOSE n \in 1..Len(list) : list[n] = x

\* isinstance(x, str) for the values of the model that can be None
IsStr(x) == x # None

\* an object all of whose attributes are scalars of the expected types
ScalarsToJsonable(class, keys, obj) == Returns(Jsonable(class, keys, obj))

\* the objects of the entity graph: <<class, number of the SuperLoci, key>>; dummy is the object
\* cached in _dummy_transcript when it no longer is the one in transcripts
GenomeRef == <<"AnnotatedGenome", 0, "">>

SuperLociRef(n) == <<"SuperLoci", n, "">>

HandleRef(G, handle) == SuperLociRef(CHOOSE n \in 1..Len(G.super_loci) : G.super_loci[n].self = handle)

DummyRef(s, n) == IF s.dummy[1].attached THEN <<"Transcribed", n, s.dummy[1].id>> ELSE <<"dummy", n, "">>

\* to_jsonable of one object; stack holds the objects whose to_jsonable is running: entering one of
\* them again repeats the same walk without end, until Python raises RecursionError
RECURSIVE ToJsonable(_, _, _)
RECURSIVE PrepEach(_, _, _, _, _)
\* _prep_list_like and _prep_dict towards json: the items in order, the first exception ends the walk
PrepEach(G, refs, stack, k, done) ==
    IF k > Len(refs)
    THEN Returns(done)
    ELSE LET r == ToJsonable(G, refs[k], stack)
         IN IF r.raised # "none" THEN r ELSE PrepEach(G, refs, stack, k + 1, Append(done, r.out))

\* a back-reference to a SuperLoci: _confirm_type fails on None, else the SuperLoci is exported
PrepSuperLoci(G, handle, stack) ==
    IF handle = None THEN Fails("AssertionError") ELSE ToJsonable(G, HandleRef(G, handle), stack)

TranscribedToJsonable(G, t, stack) ==
    IF ~IsStr(t.id) \/ ~IsStr(t.type)
    THEN Fails("AssertionError")
    ELSE LET back == PrepSuperLoci(G, t.super_loci, stack)
         IN IF back.raised # "none" THEN back ELSE ScalarsToJsonable("Transcribed", TranscribedKeys, t)

StructuredFeatureToJsonable(G, f, stack) ==
    IF ~IsStr(f.id) \/ ~IsStr(f.type) \/ ~IsStr(f.seqid) \/ ~IsStr(f.strand) \/ ~IsStr(f.frame) \/ ~IsStr(f.source)
    THEN Fails("AssertionError")
    ELSE LET back == PrepSuperLoci(G, f.super_loci, stack)
         IN IF back.raised # "none" THEN back ELSE ScalarsToJsonable("StructuredFeature", StructuredFeatureKeys, f)

SuperLociToJsonable(G, n, stack) ==
    LET s == G.super_loci[n]
    IN IF ~IsStr(s.id) \/ ~IsStr(s.type)
       THEN Fails("AssertionError")
       ELSE LET ts == PrepEach(G, [k \in 1..Len(s.transcripts_order) |-> <<"Transcribed", n, s.transcripts_order[k]>>],
                               stack, 1, <<>>)
                fs == PrepEach(G, [k \in 1..Len(s.features.order) |-> <<"StructuredFeature", n, s.features.order[k]>>],
                               stack, 1, <<>>)
                dummy == IF s.dummy = <<>> THEN Fails("AssertionError") ELSE ToJsonable(G, DummyRef(s, n), stack)
                back == ToJsonable(G, GenomeRef, stack)
            IN IF ts.raised # "none" THEN ts
               ELSE IF fs.raised # "none" THEN fs
               ELSE IF dummy.raised # "none" THEN dummy
               ELSE IF back.raised # "none" THEN back
               ELSE Returns(Jsonable("SuperLoci", SuperLociKeys,
                                     [id |-> s.id, type |-> s.type, is_partial |-> s.is_partial,
                                      is_reconstructed |-> s.is_reconstructed,
                                      is_type_in_question |-> s.is_type_in_question,
                                      transcripts |-> JsonDictOfObjects(s.transcripts_order,
                                                                        [k \in DOMAIN s.transcripts |->
                                                                            ts.out[IndexOf(s.transcripts_order, k)]]),
                                      features |-> JsonDictOfObjects(s.features.order,
                                                                     [k \in DOMAIN s.features.map |->
                                                                         fs.out[IndexOf(s.features.order, k)]]),
                                      ids |-> s.ids]))

AnnotatedGenomeToJsonable(G, stack) ==
    LET sls == PrepEach(G, [n \in 1..Len(G.super_loci) |-> SuperLociRef(n)], stack, 1, <<>>)
        seqs == G.genome.meta_info_sequences
    IN IF sls.raised # "none"
       THEN sls
       ELSE Returns(Jsonable("AnnotatedGenome", AnnotatedGenomeKeys,
                             [super_loci |-> sls.out,
                              meta_info |-> ScalarsToJsonable("MetaInfoAnnoGenome", MetaInfoAnnoGenomeKeys,
                                                              G.genome.meta_info).out,
                              meta_info_sequences |->
                                  JsonDictOfObjects(seqs.order,
                                                    [k \in DOMAIN seqs.map |->
                                                        ScalarsToJsonable("MetaInfoAnnoSequence", MetaInfoAnnoSequenceKeys,
                                                                          seqs.map[k]).out])]))

ToJsonable(G, ref, stack) ==
    IF ref \in stack
    THEN Fails("RecursionError")
    ELSE LET running == stack \cup {ref}
         IN IF ref[1] = "AnnotatedGenome" THEN AnnotatedGenomeToJsonable(G, running)
            ELSE IF ref[1] = "SuperLoci" THEN SuperLociToJsonable(G, ref[2], running)
            ELSE IF ref[1] = "Transcribed"
            THEN TranscribedToJsonable(G, G.super_loci[ref[2]].transcripts[ref[3]], running)
            ELSE IF ref[1] = "dummy" THEN TranscribedToJsonable(G, G.super_loci[ref[2]].dummy[1].obj, running)
            ELSE StructuredFeatureToJsonable(G, G.super_loci[ref[2]].features.map[ref[3]], running)

\* the entity graph of a genome: the genome and the SuperLoci of its list
Graph(g, sls) == [genome |-> g, super_loci |-> sls]

\* isinstance(to_check, expected_type) for a value of a json: bool is a subclass of int
IsInstance(type, expected_type) == type = expected_type \/ (type = "bool" /\ expected_type = "int")

\* the types of a json `for item in raw` accepts
Iterables == {"str", "list", "dict"}

\* the items `for item in raw` visits, each with its type: the dicts of a list, the keys of a dict,
\* the characters of a str (one stands for all of them)
Items(raw, type) ==
    IF type = "list" THEN [n \in 1..Len(raw) |-> [value |-> raw[n], type |-> "dict"]]
    ELSE IF type = "dict" THEN [n \in 1..Len(raw.order) |-> [value |-> raw.order[n], type |-> "str"]]
    ELSE IF raw = "" THEN <<>> ELSE <<[value |-> raw, type |-> "str"]>>

\* expected_type() of _prep_none_from_json: SuperLoci() lacks the argument genome
Construct(class) ==
    CASE class = "AnnotatedGenome" -> Returns(Graph(Genome, <<>>))
      [] class = "MetaInfoAnnoGenome" -> Returns(MetaInfoAnnoGenome)
      [] class = "MetaInfoAnnoSequence" -> Returns(MetaInfoAnnoSequence)
      [] class = "Transcribed" -> Returns(Transcribed)
      [] class = "StructuredFeature" -> Returns(StructuredFeature)
      [] class = "SuperLoci" -> Fails("TypeError")

\* self.__setattr__(key, cleaned) on an object of the class, for the exported keys: the transcripts
\* of a SuperLoci are a new dict, which the object cached in _dummy_transcript is not part of
SetAttr(class, obj, key, cleaned) ==
    IF class = "AnnotatedGenome"
    THEN IF key = "super_loci" THEN [obj EXCEPT !.super_loci = cleaned] ELSE [obj EXCEPT !.genome[key] = cleaned]
    ELSE IF class = "SuperLoci" /\ key = "transcripts"
    THEN [obj EXCEPT !.transcripts = cleaned.map,
                     !.transcripts_order = cleaned.order,
                     !.dummy = IF obj.dummy # <<>> /\ obj.dummy[1].attached
                               THEN <<[id |-> obj.dummy[1].id, attached |-> FALSE,
                                       obj |-> obj.transcripts[obj.dummy[1].id]]>>
                               ELSE @]
    ELSE [obj EXCEPT ![key] = cleaned]

RECURSIVE LoadJsonable(_, _, _, _)
\* obj.load_jsonable(raw) for any value of a json: a dict is loaded key by key, another iterable
\* loads nothing when it is empty and fails at raw[key] otherwise, the rest cannot be iterated
LoadValue(class, obj, raw, type) ==
    IF type \notin Iterables THEN [raised |-> "TypeError", out |-> obj]
    ELSE IF type = "dict" THEN LoadJsonable(class, obj, raw, 1)
    ELSE IF Len(Items(raw, type)) = 0 THEN Returns(obj)
    ELSE [raised |-> "TypeError", out |-> obj]

\* the object _prep_none_from_json made and loaded: an exception of its load_jsonable is passed
\* on, a loaded object has the expected type
ConfirmLoaded(loaded) == IF loaded.raised # "none" THEN Fails(loaded.raised) ELSE loaded

\* out = expected_type(); out.load_jsonable(raw)
LoadConstructed(expected_type, out, raw, type) ==
    IF out.raised # "none" THEN out ELSE ConfirmLoaded(LoadValue(expected_type, out.out, raw, type))

\* _prep_none_from_json: a GenericData is constructed and loaded, and the type confirmed
PrepNoneFromJson(expected_type, raw, type) ==
    IF expected_type \in GenericDataClasses THEN LoadConstructed(expected_type, Construct(expected_type), raw, type)
    ELSE IF IsInstance(type, expected_type) THEN Returns(raw)
    ELSE Fails("AssertionError")

\* _prep_list_like from json: the items in order, the first exception ends the walk
RECURSIVE PrepListLikeItems(_, _, _, _)
\* out.append(item) with item the result of _prep_none
AppendItem(expected_type, items, k, out, item) ==
    IF item.raised # "none" THEN item ELSE PrepListLikeItems(expected_type, items, k + 1, Append(out, item.out))

PrepListLikeItems(expected_type, items, k, out) ==
    IF k > Len(items)
    THEN Returns(out)
    ELSE AppendItem(expected_type, items, k, out, PrepNoneFromJson(expected_type, items[k].value, items[k].type))

PrepListLikeFromJson(expected_type, raw, type) ==
    IF type \notin Iterables THEN Fails("TypeError")
    ELSE PrepListLikeItems(expected_type, Items(raw, type), 1, <<>>)

\* _prep_dict from json: out[key] = _prep_none(expected_type, raw[key]) for the keys in order
RECURSIVE PrepDictItems(_, _, _, _)
\* out[key] = item with item the result of _prep_none
PutItem(expected_type, raw, k, out, item) ==
    IF item.raised # "none" THEN item
    ELSE PrepDictItems(expected_type, raw, k + 1, DictPut(out, raw.order[k], item.out))

PrepDictItems(expected_type, raw, k, out) ==
    IF k > Len(raw.order)
    THEN Returns(out)
    ELSE PutItem(expected_type, raw, k, out,
                 PrepNoneFromJson(expected_type, raw.map[raw.order[k]], raw.types[raw.order[k]]))

PrepDictFromJson(expected_type, raw, type) ==
    IF type \notin Iterables THEN Fails("TypeError")
    ELSE IF type = "dict" THEN PrepDictItems(expected_type, raw, 1, EmptyDict)
    ELSE IF Len(Items(raw, type)) = 0 THEN Returns(EmptyDict)
    ELSE Fails("TypeError")

\* the value cleaned as the data structure of the row of the spec says
PrepByStructure(row, raw, type) ==
    IF row.structure = None THEN PrepNoneFromJson(row.type, raw, type)
    ELSE IF row.structure = "list" THEN PrepListLikeFromJson(row.type, raw, type)
    ELSE PrepDictFromJson(row.type, raw, type)

\* assert is_exported of load_jsonable, reached when _prep_main has returned
AssertExported(is_exported, out) ==
    IF out.raised # "none" THEN out
    ELSE IF ~is_exported THEN Fails("AssertionError")
    ELSE out

\* _prep_main from json for the row get_key_spec gave, followed by the assert of load_jsonable
PrepRow(key_spec, raw, type) ==
    IF key_spec.raised # "none" THEN key_spec
    ELSE AssertExported(key_spec.out.exported, PrepByStructure(key_spec.out, raw, type))

\* _prep_main from json followed by the assert of load_jsonable: the row of the key, the value
\* cleaned as the data structure of the row says, and only then the exported flag
PrepMainFromJson(class, key, raw, type) == PrepRow(GetKeySpec(class, key), raw, type)

\* self.__setattr__(key, cleaned) and the next key, unless the key raised
LoadNext(class, obj, jsonable, k, cleaned) ==
    IF cleaned.raised # "none"
    THEN [raised |-> cleaned.raised, out |-> obj]
    ELSE LoadJsonable(class, SetAttr(class, obj, jsonable.order[k], cleaned.out), jsonable, k + 1)

\* load_jsonable of a dict from its k-th key on: the keys in the order of the json, every key set
\* before the next is looked at, so that an exception leaves the keys before it loaded
LoadJsonable(class, obj, jsonable, k) ==
    IF k > Len(jsonable.order)
    THEN Returns(obj)
    ELSE LoadNext(class, obj, jsonable, k,
                  PrepMainFromJson(class, jsonable.order[k], jsonable.map[jsonable.order[k]],
                                   jsonable.types[jsonable.order[k]]))

\* AnnotatedGenome().load_jsonable(jsonable)
AnnotatedGenomeLoadJsonable(jsonable) == LoadJsonable("AnnotatedGenome", Graph(Genome, <<>>), jsonable, 1)

\* SuperLoci.load_jsonable: the load of GenericData on the SuperLoci itself
SuperLociLoadJsonable(s, jsonable) == LoadJsonable("SuperLoci", s, jsonable, 1)


(* ---------------------------------------------------------------------- *)
(* AnnotatedGenome.add_gff on a gff file                                   *)
(* ---------------------------------------------------------------------- *)
InitGff ==
    /\ IdsIdle /\ GroupIdle /\ InterpIdle /\ JsonIdle /\ genome = AddSequences(Genome, Sequences, 1)
    /\ gff \in SeqsUpTo(GffEntries, MaxGff)
    /\ rpos = 0
    /\ gene_group = <<>>
    /\ gpc = "first"
    /\ super_loci = <<>>
    /\ yielded = <<>>
    /\ outcome = "running"

\* the reader hands out one entry: useful_gff_entries filters it, group_gff_by_gene places it
ReadEntry ==
    /\ gpc \in {"first", "loop"}
    /\ rpos < Len(gff)
    /\ rpos' = rpos + 1
    /\ LET entry == gff[rpos + 1]
           u == UsefulGffEntry(entry)
       IN IF u = "raise"
          THEN gpc' = "error" /\ outcome' = "ValueError" /\ UNCHANGED <<gene_group, yielded>>
          ELSE IF u = "skip"
          THEN UNCHANGED <<gpc, outcome, gene_group, yielded>>
          ELSE IF gpc = "first"
          THEN gene_group' = <<entry>> /\ gpc' = "loop" /\ UNCHANGED <<outcome, yielded>>
          ELSE IF StartsGroup(entry)
          THEN yielded' = Append(yielded, gene_group) /\ gpc' = "yield" /\ UNCHANGED <<outcome, gene_group>>
          ELSE gene_group' = Append(gene_group, entry) /\ UNCHANGED <<gpc, outcome, yielded>>
    /\ UNCHANGED <<gff, super_loci, genome, idVars, groupVars, interpVars, jsonVars>>

\* the reader is exhausted
EndOfFile ==
    /\ gpc \in {"first", "loop"}
    /\ rpos = Len(gff)
    /\ IF gpc = "first"
       THEN gpc' = "error" /\ outcome' = "RuntimeError" /\ UNCHANGED yielded
       ELSE yielded' = Append(yielded, gene_group) /\ gpc' = "last" /\ UNCHANGED outcome
    /\ UNCHANGED <<gff, rpos, gene_group, super_loci, genome, idVars, groupVars, interpVars, jsonVars>>

\* the body of the loop of add_gff for the group just yielded
ProcessGroup ==
    /\ gpc \in {"yield", "last"}
    /\ LET r == AddGffEntryGroup(Ctx(SuperLoci(Handle(Len(super_loci) + 1)), genome),
                                 yielded[Len(yielded)])
       IN /\ genome' = r.genome
          /\ IF r.raised # "none"
             THEN gpc' = "error" /\ outcome' = r.raised /\ UNCHANGED <<super_loci, gene_group>>
             ELSE /\ super_loci' = Append(super_loci, r.sl)
                  /\ IF gpc = "yield"
                     THEN gene_group' = <<gff[rpos]>> /\ gpc' = "loop" /\ UNCHANGED outcome
                     ELSE gpc' = "done" /\ outcome' = "done" /\ UNCHANGED gene_group
    /\ UNCHANGED <<gff, rpos, yielded, idVars, groupVars, interpVars, jsonVars>>

\* a json of a genome that holds one SuperLoci
StoredJsonable ==
    Jsonable("AnnotatedGenome", AnnotatedGenomeKeys,
             [super_loci |-> <<Jsonable("SuperLoci", <<"id">>, [id |-> "g1"])>>,
              meta_info |-> ScalarsToJsonable("MetaInfoAnnoGenome", MetaInfoAnnoGenomeKeys, MetaInfoAnnoGenome).out,
              meta_info_sequences |-> EmptyDict])

\* jsons of a genome as a file can hold them: the one above, ones with a value of another type than
\* the spec expects, ones with a key the spec does not have before or after a SuperLoci, one whose
\* int is a bool
StoredJsonables ==
    <<StoredJsonable,
      JsonDict(<<"meta_info">>,
               [meta_info |-> JsonDict(<<"species">>, [species |-> 5], [species |-> "int"])],
               [meta_info |-> "dict"]),
      JsonDict(<<"meta_info">>,
               [meta_info |-> JsonDict(<<"number_genes">>, [number_genes |-> "many"], [number_genes |-> "str"])],
               [meta_info |-> "dict"]),
      JsonDict(<<"meta_info_sequences">>,
               [meta_info_sequences |->
                   JsonDict(<<"chr1">>,
                            [chr1 |-> JsonDict(<<"seqid", "total_bp">>, [seqid |-> "chr1", total_bp |-> "9"],
                                               [seqid |-> "str", total_bp |-> "str"])],
                            [chr1 |-> "dict"])],
               [meta_info_sequences |-> "dict"]),
      JsonDict(<<"super_loci", "bogus">>,
               [super_loci |-> <<Jsonable("SuperLoci", <<"id">>, [id |-> "g1"])>>, bogus |-> 1],
               [super_loci |-> "list", bogus |-> "int"]),
      JsonDict(<<"meta_info", "super_loci">>,
               [meta_info |-> JsonDict(<<"bogus">>, [bogus |-> 1], [bogus |-> "int"]),
                super_loci |-> <<Jsonable("SuperLoci", <<"id">>, [id |-> "g1"])>>],
               [meta_info |-> "dict", super_loci |-> "list"]),
      JsonDict(<<"meta_info", "feature_ider">>,
               [meta_info |-> JsonDict(<<"species", "number_genes">>, [species |-> "x", number_genes |-> TRUE],
                                       [species |-> "str", number_genes |-> "bool"]),
                feature_ider |-> EmptyDict],
               [meta_info |-> "dict", feature_ider |-> "dict"]),
      JsonDict(<<"super_loci", "meta_info">>,
               [super_loci |-> <<>>, meta_info |-> None],
               [super_loci |-> "list", meta_info |-> "NoneType"])>>

\* jsons of a SuperLoci: scalars of the expected and of another type, a key the spec does not
\* have, new dicts of transcripts and features, attributes that are not exported
SuperLociJsonables ==
    <<JsonDict(<<"id", "ids">>, [id |-> "g9", ids |-> <<"g9">>], [id |-> "str", ids |-> "list"]),
      JsonDict(<<"type">>, [type |-> "pseudogene"], [type |-> "str"]),
      JsonDict(<<"is_partial", "id">>, [is_partial |-> TRUE, id |-> 5], [is_partial |-> "bool", id |-> "int"]),
      JsonDict(<<"id", "bogus">>, [id |-> "g9", bogus |-> 1], [id |-> "str", bogus |-> "int"]),
      JsonDict(<<"transcripts">>,
               [transcripts |->
                   JsonDict(<<"t9">>,
                            [t9 |-> JsonDict(<<"id", "features">>, [id |-> "t9", features |-> <<"f9">>],
                                             [id |-> "str", features |-> "list"])],
                            [t9 |-> "dict"])],
               [transcripts |-> "dict"]),
      JsonDict(<<"features", "type">>,
               [features |->
                   JsonDict(<<"f9">>,
                            [f9 |-> JsonDict(<<"start", "score">>, [start |-> 1, score |-> 1],
                                             [start |-> "int", score |-> "int"])],
                            [f9 |-> "dict"]),
                type |-> "gene"],
               [features |-> "dict", type |-> "str"]),
      JsonDict(<<"features", "transcripts">>,
               [features |-> EmptyDict, transcripts |-> <<>>],
               [features |-> "dict", transcripts |-> "list"]),
      JsonDict(<<"type", "genome">>, [type |-> "gene", genome |-> EmptyDict], [type |-> "str", genome |-> "dict"]),
      JsonDict(<<"transcripts">>,
               [transcripts |->
                   JsonDict(<<"t9">>,
                            [t9 |-> JsonDict(<<"super_loci">>, [super_loci |-> EmptyDict], [super_loci |-> "dict"])],
                            [t9 |-> "dict"])],
               [transcripts |-> "dict"])>>

\* genome.to_jsonable() after add_gff has ended, with or without an exception
Export ==
    /\ gpc \in {"done", "error"}
    /\ exported = <<>>
    /\ exported' = <<ToJsonable(Graph(genome, super_loci), GenomeRef, {})>>
    /\ UNCHANGED <<imported, gffVars, genome, idVars, groupVars, interpVars>>

\* the json of an import: a stored one or, with number 0, the one just exported
ImportedJsonable(n) == IF n = 0 THEN exported[1].out ELSE StoredJsonables[n]

\* AnnotatedGenome().load_jsonable(jsonable) of the json just exported or of a stored one
Import ==
    /\ gpc \in {"done", "error"}
    /\ imported = <<>>
    /\ \E n \in 0..Len(StoredJsonables) :
           /\ IF n = 0 THEN exported # <<>> /\ exported[1].raised = "none" ELSE call.op = "none"
           /\ imported' = <<[source |-> IF n = 0 THEN "exported" ELSE "stored",
                             jsonable |-> ImportedJsonable(n),
                             loaded |-> AnnotatedGenomeLoadJsonable(ImportedJsonable(n))]>>
    /\ UNCHANGED <<exported, gffVars, genome, idVars, groupVars, interpVars>>

\* the SuperLoci n after its load_jsonable, and what the call raised
SuperLociLoaded(n, j, r) ==
    /\ super_loci' = [super_loci EXCEPT ![n] = r.out]
    /\ call' = [op |-> "load_jsonable", n |-> n, jsonable |-> j, raised |-> r.raised]

\* genome.super_loci[n].load_jsonable(jsonable) after add_gff has ended: the SuperLoci keeps what
\* was loaded before an exception
SuperLociLoad ==
    /\ gpc \in {"done", "error"}
    /\ exported = <<>> /\ imported = <<>>
    /\ call.op = "none"
    /\ \E n \in 1..Len(super_loci), j \in 1..Len(SuperLociJsonables) :
           SuperLociLoaded(n, j, SuperLociLoadJsonable(super_loci[n], SuperLociJsonables[j]))
    /\ UNCHANGED <<gff, rpos, gene_group, gpc, yielded, outcome, genome, idVars, groupVars, ti, interval_sets, ipc,
                   jsonVars>>

NextGff == ReadEntry \/ EndOfFile \/ ProcessGroup \/ Export \/ Import \/ SuperLociLoad

SpecGff == InitGff /\ [][NextGff]_vars

(* ---------------------------------------------------------------------- *)
(* TranscriptInterpreter.get_status                                        *)
(* ---------------------------------------------------------------------- *)
PreIntronValues == statuses \cup {five_prime_UTR, None}

GetStatusCall ==
    /\ \E last_seen \in known, pre_intron \in PreIntronValues :
           LET r == GetStatus(last_seen, pre_intron)
           IN call' = [op |-> "get_status", last_seen |-> last_seen, pre_intron |-> pre_intron,
                       raised |-> r.raised, out |-> r.out]
    /\ UNCHANGED <<ti, interval_sets, ipc, genome, idVars, groupVars, gffVars, jsonVars>>

NextStatus == GetStatusCall

SpecStatus == Init /\ [][NextStatus]_vars

(* ---------------------------------------------------------------------- *)
(* TranscriptInterpreter on a transcript of a normalized SuperLoci         *)
(* ---------------------------------------------------------------------- *)
\* add_gff_entry_group on a fresh SuperLoci of the genome, for every group of entries
IngestedGroups ==
    {[group |-> group,
      r |-> AddGffEntryGroup(Ctx(SuperLoci(Handle(1)), AddSequences(Genome, Sequences, 1)), group)] :
     group \in InterpGroups}

InitInterp ==
    /\ IdsIdle /\ GffIdle /\ InterpIdle /\ JsonIdle
    /\ \E ingested \in IngestedGroups :
           LET r == ingested.r
               group == ingested.group
           IN /\ sl = r.sl
              /\ genome = r.genome
              /\ raised = r.raised
              /\ entries = group
              /\ pc = IF r.raised # "none" THEN "raised" ELSE "normalized"
              /\ ncollapse = 0

\* TranscriptInterpreter(transcript) for a transcript of the super locus
NewInterpreter ==
    /\ ipc = "start"
    /\ raised = "none"
    /\ \E t \in DOMAIN sl.transcripts :
           LET r == TranscriptInterpreter(sl, t)
           IN IF r.raised # "none"
              THEN /\ call' = [op |-> "TranscriptInterpreter", transcript |-> t, raised |-> r.raised]
                   /\ ipc' = "failed"
                   /\ UNCHANGED ti
              ELSE /\ ti' = <<r.out>>
                   /\ ipc' = "new"
                   /\ UNCHANGED call
    /\ UNCHANGED <<interval_sets, genome, idVars, groupVars, gffVars, jsonVars>>

\* intervals_5to3 of the interpreter: its features are the list __init__ made
Intervals5to3Call ==
    /\ ipc = "new"
    /\ \E plus_strand \in BOOLEAN :
       \E r \in Intervals5to3(sl, ti[1], plus_strand) :
              /\ interval_sets' = r.out
              /\ call' = [op |-> "intervals_5to3", plus_strand |-> plus_strand, raised |-> r.raised]
              /\ ipc' = IF r.raised # "none" THEN "failed" ELSE "sets"
    /\ UNCHANGED <<ti, genome, idVars, groupVars, gffVars, jsonVars>>

\* the lists of feature ids the partitioner can be given: up to MaxFeatures of the ids the
\* transcript lists, once each, in its order
FeatureLists ==
    LET ids == sl.transcripts[ti[1].transcript].features
    IN {given \in SubLists(Pick(ids, {n \in 1..Len(ids) : \A m \in 1..(n - 1) : ids[m] # ids[n]}, 1)) :
            Len(given) <= MaxFeatures}

\* intervals_5to3 over a given list of features: the list the partitioner reads (self.features) is
\* its input; __init__ leaves it empty and no statement of the repository fills it
Intervals5to3Given ==
    /\ ipc = "new"
    /\ \E plus_strand \in BOOLEAN :
       \E given \in FeatureLists :
       \E r \in Intervals5to3(sl, [ti[1] EXCEPT !.features = given], plus_strand) :
              /\ interval_sets' = r.out
              /\ call' = [op |-> "intervals_5to3 of given features", features |-> given,
                          plus_strand |-> plus_strand, raised |-> r.raised]
              /\ ipc' = IF r.raised # "none" THEN "failed" ELSE "sets"
    /\ UNCHANGED <<ti, genome, idVars, groupVars, gffVars, jsonVars>>

\* the intervals of a tree by begin: the sets of intervals with the same begin, lowest first
RECURSIVE Clusters(_)
Clusters(tree) ==
    IF tree = {}
    THEN <<>>
    ELSE LET first == {a \in tree : \A b \in tree : a.begin <= b.begin}
         IN <<first>> \o Clusters(tree \ first)

\* the intervals the calls below are given as arguments: intervals over the features of the
\* SuperLoci that the transcript of the interpreter lists, cut at their boundaries, those with
\* the same begin together, in the direction of reading. A call is given the intervals of a set as
\* a list sorted() can return: in any order, since they have the same span (Sorted)
ArgIntervalSets(plus_strand) ==
    LET ids == sl.transcripts[ti[1].transcript].features
        stored == \A n \in 1..Len(ids) :
                      /\ ids[n] \in DOMAIN sl.features.map
                      /\ sl.features.map[ids[n]].start - 1 < sl.features.map[ids[n]].end
    IN IF ids = <<>> \/ ~stored THEN <<>>
       ELSE IF plus_strand THEN Clusters(SplitOverlaps(TreeOf(sl, ids)))
       ELSE Reverse(Clusters(SplitOverlaps(TreeOf(sl, ids))))

PossibleTypesCall ==
    /\ ipc = "new"
    /\ \E plus_strand \in BOOLEAN :
       \E k \in 1..Len(ArgIntervalSets(plus_strand)) :
       \E chosen \in SUBSET ArgIntervalSets(plus_strand)[k] :
           \E intervals \in Sorted(chosen) :
               LET r == PossibleTypes(sl, intervals)
               IN call' = [op |-> "possible_types", intervals |-> intervals, raised |-> r.raised,
                           out |-> r.out]
    /\ ipc' = "called"
    /\ UNCHANGED <<ti, interval_sets, genome, idVars, groupVars, gffVars, jsonVars>>

\* the result of a call that works on the SuperLoci becomes the state
Apply(r) ==
    /\ sl' = r.sl
    /\ genome' = r.genome
    /\ ipc' = "called"
    /\ UNCHANGED <<ti, interval_sets, entries, pc, raised, ncollapse, idVars, gffVars, jsonVars>>

\* interpret_first_pos on the first of the lists, as decode_raw_features calls it
InterpretFirstPosCall ==
    /\ ipc = "new"
    /\ \E plus_strand \in BOOLEAN :
       \E intervals \in (IF ArgIntervalSets(plus_strand) = <<>> THEN {}
                         ELSE Sorted(ArgIntervalSets(plus_strand)[1])) :
           LET r == InterpretFirstPos(Cur, intervals, plus_strand)
           IN /\ call' = [op |-> "interpret_first_pos", intervals |-> intervals,
                          plus_strand |-> plus_strand, seen |-> genome.feature_ider.seen,
                          raised |-> r.raised, out |-> r.out]
              /\ Apply(r)

LastFeatureTypes == {TSS, status_five_prime_UTR, exon}

\* the lists of interval sets intervals_5to3 returns for the lists of features it can be given
GivenIntervalSets(plus_strand) ==
    UNION {{r.out : r \in {o \in Intervals5to3(sl, [ti[1] EXCEPT !.features = given], plus_strand) :
                               o.raised = "none"}} : given \in FeatureLists}

InterpretTransitionCall ==
    /\ ipc = "new"
    /\ \E plus_strand \in BOOLEAN :
       \E sets \in GivenIntervalSets(plus_strand) :
       \E i \in 1..(Len(sets) - 1) :
       \E last_type \in LastFeatureTypes :
           LET pre_intron_status == five_prime_UTR
               ivals_before == sets[i]
               ivals_after == sets[i + 1]
               last_feature == [StructuredFeature EXCEPT !.type = last_type]
               r == InterpretTransition(Cur, last_feature, pre_intron_status, ivals_before, ivals_after,
                                        plus_strand)
           IN /\ call' = [op |-> "interpret_transition", last_feature |-> last_feature,
                          pre_intron_status |-> pre_intron_status, ivals_before |-> ivals_before,
                          ivals_after |-> ivals_after, plus_strand |-> plus_strand,
                          raised |-> r.raised, out |-> r.out]
              /\ Apply(r)

\* clone of a feature of the feature map
CloneCall ==
    /\ ipc = "start"
    /\ raised = "none"
    /\ \E key \in DOMAIN sl.features.map :
       \E copy_transcripts \in BOOLEAN :
           LET r == Clone(Cur, sl.features.map[key], copy_transcripts)
           IN /\ call' = [op |-> "clone", template |-> key, copy_transcripts |-> copy_transcripts,
                          seen |-> genome.feature_ider.seen, before |-> sl,
                          raised |-> r.raised, out |-> r.f]
              /\ Apply(r)

\* the loop of decode_raw_features: get_status on the type of the last new feature, once for every
\* pair of neighbouring interval sets; the body ends after its prints and appends nothing to
\* new_features, so every pass is given the same type; returned lists what get_status returned
RECURSIVE DecodeLoop(_, _, _, _)
DecodeLoop(last_seen, pre_intron_status, passes, returned) ==
    IF passes = 0
    THEN [raised |-> "none", statuses |-> returned]
    ELSE LET r == GetStatus(last_seen, pre_intron_status)
         IN IF r.raised # "none"
            THEN [raised |-> r.raised, statuses |-> returned]
            ELSE DecodeLoop(last_seen, r.out[2], passes - 1, Append(returned, r.out))

\* interpret_first_pos on the first interval set, then the loop; last_seen is new_features[-1].type
DecodeFrom(r, passes) ==
    IF r.raised # "none"
    THEN [raised |-> r.raised, last_seen |-> None, statuses |-> <<>>]
    ELSE [last_seen |-> r.out[1][Len(r.out[1])].type] @@
         DecodeLoop(r.out[1][Len(r.out[1])].type, r.out[2], passes, <<>>)

\* decode_raw_features: intervals_5to3 of the interpreter's own features, interpret_first_pos on the
\* first interval set, then the loop
DecodeRawFeaturesCall ==
    /\ ipc = "new"
    /\ \E plus_strand \in BOOLEAN :
       \E sets \in Intervals5to3(sl, ti[1], plus_strand) :
              IF sets.raised # "none"
              THEN /\ call' = [op |-> "decode_raw_features", plus_strand |-> plus_strand,
                               raised |-> sets.raised, last_seen |-> None, statuses |-> <<>>]
                   /\ UNCHANGED <<sl, genome>>
              ELSE /\ call' = [op |-> "decode_raw_features", plus_strand |-> plus_strand] @@
                              DecodeFrom(InterpretFirstPos(Cur, sets.out[1], plus_strand),
                                         Len(sets.out) - 1)
                   /\ sl' = InterpretFirstPos(Cur, sets.out[1], plus_strand).sl
                   /\ genome' = InterpretFirstPos(Cur, sets.out[1], plus_strand).genome
    /\ ipc' = "called"
    /\ UNCHANGED <<ti, interval_sets, entries, pc, raised, ncollapse, idVars, gffVars, jsonVars>>

NextInterp ==
    \/ NewInterpreter
    \/ Intervals5to3Call
    \/ Intervals5to3Given
    \/ PossibleTypesCall
    \/ InterpretFirstPosCall
    \/ InterpretTransitionCall
    \/ CloneCall
    \/ DecodeRawFeaturesCall

SpecInterp == InitInterp /\ [][NextInterp]_vars

(* ---------------------------------------------------------------------- *)
(* TranscriptInterpreter.get_status called in sequence                     *)
(* ---------------------------------------------------------------------- *)
\* transcripts with one feature on the first span of the plus strand
DecodeGroups == {group \in InterpGroups : Len(group) = 3 /\ group[3].strand = "+" /\ group[3].start = 1}

InitDecode ==
    /\ IdsIdle /\ GffIdle /\ InterpIdle /\ JsonIdle
    /\ \E ingested \in {i \in IngestedGroups : i.group \in DecodeGroups} :
           /\ sl = ingested.r.sl
           /\ genome = ingested.r.genome
           /\ raised = ingested.r.raised
           /\ entries = ingested.group
           /\ pc = IF ingested.r.raised # "none" THEN "raised" ELSE "normalized"
           /\ ncollapse = 0

\* the values of the parameter last_seen: the types get_status tells apart, and one it does not know
LastSeenTypes ==
    statuses \cup {TSS, start_codon, stop_codon, TTS, donor_splice_site, acceptor_splice_site, exon}

\* new_features, pre_intron_status = interpret_first_pos(...): the type of the last new feature and
\* the remembered status are what the first get_status is called with
ThreadFrom(r) ==
    IF r.raised # "none"
    THEN [op |-> "get_status in sequence", last_seen |-> None, pre_intron_status |-> None,
          threaded |-> <<>>, statuses |-> <<>>, raised |-> r.raised]
    ELSE [op |-> "get_status in sequence", last_seen |-> r.out[1][Len(r.out[1])].type,
          pre_intron_status |-> r.out[2], threaded |-> <<>>, statuses |-> <<>>, raised |-> "none"]

ThreadStart ==
    /\ ipc = "new"
    /\ \E plus_strand \in BOOLEAN :
       \E intervals \in (IF ArgIntervalSets(plus_strand) = <<>> THEN {}
                         ELSE Sorted(ArgIntervalSets(plus_strand)[1])) :
           LET r == InterpretFirstPos(Cur, intervals, plus_strand)
           IN /\ call' = ThreadFrom(r)
              /\ sl' = r.sl
              /\ genome' = r.genome
              /\ ipc' = IF r.raised # "none" THEN "failed" ELSE "threading"
    /\ UNCHANGED <<ti, interval_sets, entries, pc, raised, ncollapse, idVars, gffVars, jsonVars>>

\* status_in, pre_intron_status = get_status(last_seen, pre_intron_status), then the type the next
\* call is given
ThreadStep ==
    /\ ipc = "threading"
    /\ Len(call.threaded) < MaxThreaded
    /\ LET r == GetStatus(call.last_seen, call.pre_intron_status)
       IN IF r.raised # "none"
          THEN /\ call' = [call EXCEPT !.raised = r.raised, !.threaded = Append(@, call.last_seen)]
               /\ ipc' = "failed"
          ELSE \E last_seen \in LastSeenTypes :
                   /\ call' = [call EXCEPT !.threaded = Append(@, call.last_seen),
                                           !.statuses = Append(@, r.out),
                                           !.pre_intron_status = r.out[2],
                                           !.last_seen = last_seen]
                   /\ UNCHANGED ipc
    /\ UNCHANGED <<ti, interval_sets, genome, idVars, groupVars, gffVars, jsonVars>>

NextDecode == NewInterpreter \/ ThreadStart \/ ThreadStep

SpecDecode == InitDecode /\ [][NextDecode]_vars

(* ---------------------------------------------------------------------- *)
(* Properties                                                              *)
(* ---------------------------------------------------------------------- *)

\* C1: all ids returned by next_unique_id on one IDMaker are pairwise distinct,
\* whatever mix of suggestions (also ones that look like synthesized ids) is passed.
C1_IssuedIdsDistinct ==
    \A i, j \in 1..Len(issued) : i # j => issued[i] # issued[j]

\* the entry a step of the ingestion has just added
Added == entries'[Len(entries')]

AddsFeatureEntry == pc = "ingest" /\ Len(entries') = Len(entries) + 1 /\ Added.type \in on_sequence

\* the id add_data gives the feature of the entry being added
AddedId == NextUniqueId(genome.feature_ider, Added.id).id

\* C2: a feature entry whose declared parent is neither a transcript of the SuperLoci nor the
\* SuperLoci id is ingested without raising: the feature is stored with type error, linked to no
\* transcript, and the ingestion goes on with the next entries.
C2_UnresolvedParentRecovered ==
    [][(/\ AddsFeatureEntry
        /\ Len(Added.parent) = 1
        /\ Added.parent[1] \notin DOMAIN sl.transcripts
        /\ Added.parent[1] # sl.id)
       => (/\ raised' = "none"
           /\ pc' = "ingest"
           /\ AddedId \in DOMAIN sl'.features.map
           /\ sl'.features.map[AddedId].type = error
           /\ sl'.features.map[AddedId].transcripts = <<>>
           /\ sl'.transcripts = sl.transcripts)]_vars

\* a step that runs collapse_identical_features to its end
CollapseRan ==
    /\ \/ pc = "collapse"
       \/ pc = "normalized" /\ ncollapse' = ncollapse + 1
    /\ raised' = "none"

\* C3: after collapse_identical_features, for every feature j merged into a feature i: every transcript
\* that was linked to j is linked to i, no transcript lists j any more, and j is no key of the feature map.
C3_MergeRelinks ==
    [][CollapseRan =>
        \A j \in (DOMAIN sl.features.map) \ (DOMAIN sl'.features.map) :
            /\ \E i \in DOMAIN sl'.features.map :
                  /\ i \in DOMAIN sl.features.map
                  /\ FullyOverlaps(sl.features.map[i], sl.features.map[j])
                  /\ \A t \in DOMAIN sl.transcripts :
                        (InSeq(sl.transcripts[t].features, j) \/ InSeq(sl.features.map[j].transcripts, t))
                        => /\ InSeq(sl'.transcripts[t].features, i)
                           /\ InSeq(sl'.features.map[i].transcripts, t)
            /\ \A t \in DOMAIN sl'.transcripts : ~InSeq(sl'.transcripts[t].features, j)]_vars

\* a run of collapse_identical_features has just ended
JustCollapsed == pc = "exons" \/ (pc = "normalized" /\ ncollapse >= 1)

\* C4: collapse_identical_features is idempotent: run again right after a run, it leaves the feature
\* map, every feature and every link list as they are.
C4_CollapseIdempotent ==
    JustCollapsed => CollapseIdenticalFeatures(Cur) = Cur

\* the first run merged some feature away and left several features to compare
C4_Witness ==
    /\ pc = "exons"
    /\ Cardinality(DOMAIN sl.features.map) >= 2
    /\ Cardinality(DOMAIN sl.features.map) < Cardinality({k \in 1..Len(entries) : entries[k].type \in on_sequence})
    /\ \A k \in 1..Len(entries) : entries[k].id # "ftr000000"

\* C5: after maybe_reconstruct_exons every CDS, five_prime_UTR and three_prime_UTR feature of the
\* feature map is contained in some exon of the same feature map.
C5_CodingInfoInExon ==
    (pc = "normalized" /\ ncollapse = 0) =>
        \A k \in DOMAIN sl.features.map :
            sl.features.map[k].type \in coding_info =>
                \E x \in DOMAIN sl.features.map :
                    /\ sl.features.map[x].type = exon
                    /\ IsContainedIn(sl.features.map[k], sl.features.map[x])

\* C6: every Transcribed of the transcript map (the dummy transcript too) and every feature of the
\* feature map (the whole-locus error feature and reconstructed exons too) refers back to its SuperLoci.
C6_BackReferences ==
    /\ \A t \in DOMAIN sl.transcripts : sl.transcripts[t].super_loci = sl.self
    /\ \A k \in DOMAIN sl.features.map : sl.features.map[k].super_loci = sl.self

\* C7: feature entries whose declared parent is the SuperLoci id all link to one dummy transcript: the
\* first such entry creates it and the transcript map gains exactly one entry, every later one reuses it.
C7_SingleDummyTranscript ==
    [][(/\ AddsFeatureEntry
        /\ Added.parent = <<sl.id>>
        /\ sl.id \notin DOMAIN sl.transcripts)
       => (/\ raised' = "none"
           /\ sl'.dummy # <<>>
           /\ IF sl.dummy = <<>>
              THEN /\ sl'.dummy[1].id \notin DOMAIN sl.transcripts
                   /\ DOMAIN sl'.transcripts = (DOMAIN sl.transcripts) \cup {sl'.dummy[1].id}
              ELSE /\ sl'.dummy[1].id = sl.dummy[1].id
                   /\ DOMAIN sl'.transcripts = DOMAIN sl.transcripts
           /\ AddedId \in DOMAIN sl'.features.map
           /\ sl'.features.map[AddedId].transcripts = <<sl'.dummy[1].id>>
           /\ InSeq(sl'.transcripts[sl'.dummy[1].id].features, AddedId))]_vars

\* the group read so far is a gene entry followed by transcript entries only
OnlyTranscripts ==
    /\ entries # <<>>
    /\ entries[1].type = gene
    /\ \A k \in 2..Len(entries) : entries[k].type \in transcribed

\* every transcript entry of the group declares the gene as its one parent
ParentsAreGene == \A k \in 2..Len(entries) : entries[k].parent = <<entries[1].id>>

\* the feature map holds one feature: an error feature with the span of the gene entry
OneErrorFeature ==
    /\ Cardinality(DOMAIN sl.features.map) = 1
    /\ \A k \in DOMAIN sl.features.map :
          /\ sl.features.map[k].type = error
          /\ sl.features.map[k].start = entries[1].start
          /\ sl.features.map[k].end = entries[1].end

\* C8 as stated: for any group that is a gene entry alone or followed by transcript entries only,
\* nothing is raised and add_gff_entry_group leaves exactly one feature, of type error, with the span
\* of the gene entry.
C8_EmptyLocusAnyTranscripts ==
    OnlyTranscripts =>
        /\ raised = "none"
        /\ pc = "normalized" => OneErrorFeature

\* C8 amended: the same for groups whose transcript entries each declare the gene id as their
\* single parent.
C8_EmptyLocusMarked ==
    (OnlyTranscripts /\ ParentsAreGene) =>
        /\ raised = "none"
        /\ pc = "normalized" => OneErrorFeature

C8_Witness ==
    /\ OnlyTranscripts
    /\ ParentsAreGene
    /\ Len(entries) >= 3
    /\ pc = "normalized"
    /\ ncollapse = 0

\* C9: a new group starts at every entry of a gene-level type, so (for a file whose first kept entry
\* is of a gene-level type) every yielded group holds exactly one gene-level entry, its first element.
C9_GroupsStartAtGeneLevel ==
    (yielded # <<>> /\ yielded[1][1].type \in gene_level) =>
        \A n \in 1..Len(yielded) :
            /\ yielded[n][1].type \in gene_level
            /\ \A k \in 2..Len(yielded[n]) : yielded[n][k].type \notin gene_level

HasUnknown == \E k \in 1..Len(gff) : gff[k].type \notin known

FirstUnknown == CHOOSE k \in 1..Len(gff) : gff[k].type \notin known /\ \A m \in 1..(k - 1) : gff[m].type \in known

\* C10: when the gff holds an entry of a type outside the known vocabulary, add_gff never completes
\* normally: the reader never gets past that entry and reaching it ends the run with the error.
C10_UnknownTypeAborts ==
    HasUnknown =>
        /\ outcome # "done"
        /\ rpos <= FirstUnknown
        /\ rpos = FirstUnknown => (outcome = "ValueError" /\ gpc = "error")

C10_Witness ==
    /\ HasUnknown
    /\ rpos = FirstUnknown
    /\ outcome = "ValueError"
    /\ Len(super_loci) >= 1
    /\ \E k \in 1..(rpos - 1) : gff[k].type \in skipable

\* the intervals of all interval sets
AllIntervals == UNION {{interval_sets[c][n] : n \in 1..Len(interval_sets[c])} : c \in 1..Len(interval_sets)}

\* the keys of the features of one interval set
DataOf(intervals) == {intervals[n].data : n \in 1..Len(intervals)}

\* the ids of the features linked to the transcript of the interpreter
LinkedFeatures == {sl.transcripts[ti[1].transcript].features[n] :
                       n \in 1..Len(sl.transcripts[ti[1].transcript].features)}

\* the features given to the partitioner
GivenFeatures == {call.features[n] : n \in 1..Len(call.features)}

\* C11: for any list of features given to the partitioner, the intervals it yields are pairwise
\* identical in [begin, end) or disjoint, the intervals of one interval set share begin and end, and
\* the interval sets come in strictly ascending order of begin, in strictly descending order from
\* intervals_5to3 for the minus strand.
C11_SplitIntervalsAligned ==
    (call.op = "intervals_5to3 of given features" /\ call.raised = "none") =>
        /\ interval_sets # <<>>
        /\ \A a, b \in AllIntervals :
               \/ a.begin = b.begin /\ a.end = b.end
               \/ a.end <= b.begin
               \/ b.end <= a.begin
        /\ \A c \in 1..Len(interval_sets) : \A n \in 1..Len(interval_sets[c]) :
               /\ interval_sets[c][n].begin = interval_sets[c][1].begin
               /\ interval_sets[c][n].end = interval_sets[c][1].end
        /\ \A c \in 1..(Len(interval_sets) - 1) :
               IF call.plus_strand
               THEN interval_sets[c][1].begin < interval_sets[c + 1][1].begin
               ELSE interval_sets[c][1].begin > interval_sets[c + 1][1].begin

\* two given features with partially overlapping spans were cut into three interval sets, reversed
C11_Witness ==
    /\ call.op = "intervals_5to3 of given features"
    /\ call.raised = "none"
    /\ ~call.plus_strand
    /\ Len(interval_sets) = 3
    /\ Len(interval_sets[2]) > Len(interval_sets[1])
    /\ \E f, g \in GivenFeatures :
           /\ sl.features.map[f].start < sl.features.map[g].start
           /\ sl.features.map[g].start <= sl.features.map[f].end
           /\ sl.features.map[f].end < sl.features.map[g].end

\* C12: the interval sets of the interpreter of a transcript are made of exactly the features linked
\* to the transcript: each interval set holds exactly the linked features whose span [start - 1, end)
\* covers its interval, and every linked feature is in some interval set.
C12_ClustersOfLinkedFeatures ==
    (call.op = "intervals_5to3" /\ LinkedFeatures # {}) =>
        /\ call.raised = "none"
        /\ \A c \in 1..Len(interval_sets) :
               DataOf(interval_sets[c]) =
                   {f \in LinkedFeatures \cap DOMAIN sl.features.map :
                        /\ sl.features.map[f].start - 1 <= interval_sets[c][1].begin
                        /\ interval_sets[c][1].end <= sl.features.map[f].end}
        /\ \A f \in LinkedFeatures : \E c \in 1..Len(interval_sets) : f \in DataOf(interval_sets[c])

\* C13: get_status follows its table for every type and every remembered status: a status literal
\* gives itself and keeps pre_intron; TSS, start_codon, stop_codon, TTS give the five prime UTR,
\* coding, three prime UTR, intergenic status and set pre_intron to it; donor_splice_site gives the
\* intron status and keeps pre_intron; acceptor_splice_site gives pre_intron and keeps it; every
\* other type raises.
C13_GetStatusTable ==
    call.op = "get_status" =>
        LET t == call.last_seen
            p == call.pre_intron
            gives(status, pre) == call.raised = "none" /\ call.out = <<status, pre>>
        IN CASE t \in {"status_coding", "status_intron", "status_five_prime_UTR",
                       "status_three_prime_UTR", "status_intergenic"} -> gives(t, p)
             [] t = "TSS" -> gives("status_five_prime_UTR", "status_five_prime_UTR")
             [] t = "start_codon" -> gives("status_coding", "status_coding")
             [] t = "stop_codon" -> gives("status_three_prime_UTR", "status_three_prime_UTR")
             [] t = "TTS" -> gives("status_intergenic", "status_intergenic")
             [] t = "donor_splice_site" -> gives("status_intron", p)
             [] t = "acceptor_splice_site" -> gives(p, p)
             [] OTHER -> call.raised = "ValueError"

\* the status remembered over an intron is kept at the donor site
C13_Witness ==
    /\ call.op = "get_status"
    /\ call.last_seen = "donor_splice_site"
    /\ call.pre_intron = "status_coding"
    /\ call.raised = "none"
    /\ call.out[2] = "status_coding"

\* the types of the features of the intervals a call was given
CallTypes == {sl.features.map[call.intervals[n].data].type : n \in 1..Len(call.intervals)}

\* C14: possible_types is decided by the set of types of the intervals: {exon, five_prime_UTR} and
\* {five_prime_UTR} give [five_prime_UTR]; {exon, three_prime_UTR} and {three_prime_UTR} give
\* [three_prime_UTR]; {exon} gives [five_prime_UTR, three_prime_UTR]; {CDS, exon} and {CDS} give [CDS];
\* every other set of types, and every list of intervals that has not 1 or 2 intervals, raises.
C14_PossibleTypesTable ==
    call.op = "possible_types" =>
        LET gives(out) == call.raised = "none" /\ call.out = out
        IN IF Len(call.intervals) \notin {1, 2}
           THEN call.raised = "ValueError"
           ELSE CASE CallTypes \in {{"exon", "five_prime_UTR"}, {"five_prime_UTR"}} ->
                         gives(<<"five_prime_UTR">>)
                  [] CallTypes \in {{"exon", "three_prime_UTR"}, {"three_prime_UTR"}} ->
                         gives(<<"three_prime_UTR">>)
                  [] CallTypes = {"exon"} -> gives(<<"five_prime_UTR", "three_prime_UTR">>)
                  [] CallTypes \in {{"CDS", "exon"}, {"CDS"}} -> gives(<<"CDS">>)
                  [] OTHER -> call.raised = "ValueError"

\* three intervals of a CDS and two exons: a set of types of the table, and still a failure
C14_Witness ==
    /\ call.op = "possible_types"
    /\ Len(call.intervals) = 3
    /\ CallTypes = {"CDS", "exon"}
    /\ call.raised = "ValueError"

\* the feature of the first interval a call was given
CallFirst == sl.features.map[call.intervals[1].data]

\* the upstream end, counted from 1, of the intervals a call was given
CallAt == IF CallFirst.strand = "+" THEN call.intervals[1].begin + 1 ELSE call.intervals[1].end

\* sets of types of one or two intervals whose possible types include five_prime_UTR, or are [CDS]
FivePrimeSets == {{"exon", "five_prime_UTR"}, {"five_prime_UTR"}, {"exon"}}

CodingSets == {{"CDS", "exon"}, {"CDS"}}

\* C15: interpret_first_pos on intervals whose possible types include five_prime_UTR returns exactly
\* one new feature: of type TSS, with start = end = at, the upstream end of the intervals counted
\* from 1 (begin + 1 on the plus strand, end on the minus strand), and with seqid and strand of the
\* feature of the first interval; get_status gives the five prime UTR status after it.
C15_FirstPosTSS ==
    (call.op = "interpret_first_pos" /\ Len(call.intervals) \in {1, 2} /\ CallTypes \in FivePrimeSets) =>
        /\ call.raised = "none"
        /\ Len(call.out[1]) = 1
        /\ call.out[1][1].type = "TSS"
        /\ call.out[1][1].start = CallAt
        /\ call.out[1][1].end = CallAt
        /\ call.out[1][1].seqid = CallFirst.seqid
        /\ call.out[1][1].strand = CallFirst.strand
        /\ GetStatus(call.out[1][1].type, call.out[2]) =
               Returns(<<"status_five_prime_UTR", "status_five_prime_UTR">>)

\* a transcript of the minus strand read in its direction: the TSS lies at the end of the last interval
C15_Witness ==
    /\ call.op = "interpret_first_pos"
    /\ call.raised = "none"
    /\ ~call.plus_strand
    /\ CallFirst.strand = "-"
    /\ CallTypes = {"exon", "five_prime_UTR"}
    /\ call.out[1][1].start = call.intervals[1].end
    /\ call.out[1][1].start > CallFirst.start

Max(a, b) == IF a >= b THEN a ELSE b

Min(a, b) == IF a <= b THEN a ELSE b

\* C16: interpret_first_pos on intervals whose possible types are [CDS] returns features that end
\* with a point feature of type status_coding at at; exactly when at is not 1 (plus strand) or the
\* length of the sequence (minus strand), an error feature precedes it that spans
\* [max(1, at - 2000), at - 1] or [at + 1, min(length, at + 2000)], within the sequence.
C16_FirstPosCodingStart ==
    (call.op = "interpret_first_pos" /\ Len(call.intervals) \in {1, 2} /\ CallTypes \in CodingSets) =>
        /\ call.raised = "none"
        /\ LET fs == call.out[1]
               total == GetSeqLength(genome, CallFirst.seqid)
               at_edge == IF call.plus_strand THEN CallAt = 1 ELSE CallAt = total
           IN /\ fs[Len(fs)].type = "status_coding"
              /\ fs[Len(fs)].start = CallAt
              /\ fs[Len(fs)].end = CallAt
              /\ IF at_edge
                 THEN Len(fs) = 1
                 ELSE /\ Len(fs) = 2
                      /\ fs[1].type = "error"
                      /\ IF call.plus_strand
                         THEN fs[1].start = Max(1, CallAt - error_buffer) /\ fs[1].end = CallAt - 1
                         ELSE fs[1].start = CallAt + 1 /\ fs[1].end = Min(total, CallAt + error_buffer)
                      /\ 1 <= fs[1].start /\ fs[1].start <= fs[1].end /\ fs[1].end <= total

\* the features of the first intervals on both sides of a transition, and the sets of types there
BeforeFirst == sl.features.map[call.ivals_before[1].data]

AfterFirst == sl.features.map[call.ivals_after[1].data]

BeforeTypes == {sl.features.map[call.ivals_before[n].data].type : n \in 1..Len(call.ivals_before)}

AfterTypes == {sl.features.map[call.ivals_after[n].data].type : n \in 1..Len(call.ivals_after)}

\* a transition met in the five prime UTR status, coming from intervals that can be five prime UTR
FromFivePrime ==
    /\ call.op = "interpret_transition"
    /\ call.last_feature.type \in {"TSS", "status_five_prime_UTR"}
    /\ Len(call.ivals_before) \in {1, 2}
    /\ BeforeTypes \in FivePrimeSets
    /\ Len(call.ivals_after) \in {1, 2}

\* the spans on both sides touch: no base lies between them
SpansAdjacent ==
    IF BeforeFirst.strand = "+" THEN BeforeFirst.end + 1 = AfterFirst.start
    ELSE AfterFirst.end + 1 = BeforeFirst.start

FirstCodonPosition == "1"

\* C17: interpret_transition in the five prime UTR status, from intervals that can be five prime UTR
\* to intervals that can be CDS, returns a point feature of type start_codon at the upstream end of
\* the CDS when the two spans are adjacent and the CDS has the frame of a first codon position, and
\* fails otherwise.
C17_StartCodonAtBoundary ==
    (FromFivePrime /\ AfterTypes \in CodingSets) =>
        IF SpansAdjacent /\ AfterFirst.frame = FirstCodonPosition
        THEN /\ call.raised = "none"
             /\ Len(call.out[1]) = 1
             /\ call.out[1][1].type = "start_codon"
             /\ call.out[1][1].start = Upstream(AfterFirst)
             /\ call.out[1][1].end = Upstream(AfterFirst)
        ELSE call.raised # "none"

\* C18: interpret_transition in the five prime UTR status, between intervals that both can be five
\* prime UTR, fails when the features on both sides are contiguous in the direction of the
\* transcript, and else returns a donor_splice_site point one base past the downstream end of the
\* upstream feature, then an acceptor_splice_site point one base before the upstream end of the
\* downstream feature.
C18_IntronInFivePrimeUTR ==
    (FromFivePrime /\ AfterTypes \in FivePrimeSets) =>
        LET sign == IF call.plus_strand THEN 1 ELSE -1
        IN IF (Downstream(BeforeFirst) + sign) * sign >= Upstream(AfterFirst) * sign
           THEN call.raised # "none"
           ELSE /\ call.raised = "none"
                /\ Len(call.out[1]) = 2
                /\ call.out[1][1].type = "donor_splice_site"
                /\ call.out[1][1].start = Downstream(BeforeFirst) + sign
                /\ call.out[1][1].end = Downstream(BeforeFirst) + sign
                /\ call.out[1][2].type = "acceptor_splice_site"
                /\ call.out[1][2].start = Upstream(AfterFirst) - sign
                /\ call.out[1][2].end = Upstream(AfterFirst) - sign

\* the elements of a list
Range(list) == {list[n] : n \in 1..Len(list)}

\* the feature a clone was made of, as it was before the call, and the transcripts that list an id
CloneTemplate == call.before.features.map[call.template]

TranscriptsListing(locus, id) ==
    {t \in DOMAIN locus.transcripts :
        \E n \in 1..Len(locus.transcripts[t].features) : locus.transcripts[t].features[n] = id}

CopiedFields == {"seqid", "strand", "frame", "score", "source", "is_partial", "is_reconstructed",
                 "is_type_in_question", "type", "start", "end"}

\* C20: clone of a feature linked to the transcripts T returns a feature with an id that differs
\* from the id of the template and from every id the feature allocator issued before, with seqid,
\* strand, frame, score, source, flags, type, start and end of the template, linked both ways to
\* exactly the transcripts of T (to none when copy_transcripts is false); the attributes and the
\* transcript list of the template are as before the call.
C20_CloneContract ==
    (call.op = "clone" /\ CloneTemplate.transcripts # <<>>) =>
        /\ call.raised = "none"
        /\ call.out.id # CloneTemplate.id
        /\ call.out.id \notin call.seen
        /\ \A field \in CopiedFields : call.out[field] = CloneTemplate[field]
        /\ LET T == IF call.copy_transcripts THEN Range(CloneTemplate.transcripts) ELSE {}
           IN /\ Range(call.out.transcripts) = T
              /\ TranscriptsListing(sl, call.out.id) = T
        /\ sl.features.map[call.template] = CloneTemplate

\* the json of a SuperLoci holds the exported keys only, and so do those of its transcripts and features
OnlyExportedKeys(jsonable) ==
    /\ jsonable.order = SuperLociKeys
    /\ \A t \in DOMAIN jsonable.map.transcripts.map : jsonable.map.transcripts.map[t].order = TranscribedKeys
    /\ \A f \in DOMAIN jsonable.map.features.map : jsonable.map.features.map[f].order = StructuredFeatureKeys

\* C19: export followed by import is a round trip: to_jsonable of a genome with its SuperLoci,
\* transcripts and features ends with a json that holds one record for every SuperLoci and no
\* back-reference, and load_jsonable of that json into a fresh genome succeeds and gives a genome
\* with the same exported fields, which exports to the same json again.
C19_ExportImportRoundTrip ==
    /\ exported # <<>> =>
           /\ exported[1].raised = "none"
           /\ exported[1].out.order = AnnotatedGenomeKeys
           /\ Len(exported[1].out.map.super_loci) = Len(super_loci)
           /\ \A n \in 1..Len(super_loci) : OnlyExportedKeys(exported[1].out.map.super_loci[n])
    /\ (exported # <<>> /\ imported # <<>> /\ imported[1].source = "exported") =>
           /\ imported[1].loaded.raised = "none"
           /\ imported[1].loaded.out.genome.meta_info = genome.meta_info
           /\ imported[1].loaded.out.genome.meta_info_sequences = genome.meta_info_sequences
           /\ Len(imported[1].loaded.out.super_loci) = Len(super_loci)
           /\ ToJsonable(imported[1].loaded.out, GenomeRef, {}) = exported[1]

\* the calls of get_status made so far in sequence: the types given and the pairs returned
Threaded == IF call.op = "get_status in sequence" THEN call.threaded ELSE <<>>

Statuses == IF call.op = "get_status in sequence" THEN call.statuses ELSE <<>>

\* the last donor splice site threaded before call k, 0 when there is none
LastDonorBefore(k) ==
    LET donors == {j \in 1..(k - 1) : Threaded[j] = donor_splice_site}
    IN IF donors = {} THEN 0 ELSE CHOOSE j \in donors : \A i \in donors : i <= j

\* the remembered status is never the intron status
PreIntronNeverIntron == \A k \in 1..Len(Statuses) : Statuses[k][2] # status_intron

\* C21 as stated: along any sequence of types threaded through get_status from the result of
\* interpret_first_pos, the status after an acceptor splice site is the status that was in force
\* right before the donor splice site that precedes it, and the remembered status is never intron.
C21_PreIntronRestored ==
    /\ \A k \in 1..Len(Statuses) :
           (Threaded[k] = acceptor_splice_site /\ LastDonorBefore(k) > 1) =>
               Statuses[k][1] = Statuses[LastDonorBefore(k) - 1][1]
    /\ PreIntronNeverIntron

\* the types that set the remembered status, or give it back
SetsPreIntron == {TSS, start_codon, stop_codon, TTS, acceptor_splice_site}

\* C21, amended: the status after an acceptor splice site that directly follows its donor splice
\* site is the status that was in force right before the donor, when that status came from a TSS,
\* a start codon, a stop codon, a TTS or an acceptor splice site (a status literal and a donor leave
\* the remembered status as it was); the remembered status is never the intron status.
C21_PreIntronRestoredAfterLandmark ==
    /\ \A k \in 3..Len(Statuses) :
           (/\ Threaded[k] = acceptor_splice_site
            /\ Threaded[k - 1] = donor_splice_site
            /\ Threaded[k - 2] \in SetsPreIntron) =>
               /\ Statuses[k - 1][1] = status_intron
               /\ Statuses[k][1] = Statuses[k - 2][1]
    /\ PreIntronNeverIntron

\* an intron in the coding region: TSS, start codon, donor, acceptor, and the status is coding again
C21_Witness ==
    /\ Threaded = <<TSS, start_codon, donor_splice_site, acceptor_splice_site>>
    /\ Len(Statuses) = 4
    /\ Statuses[2][1] = status_coding
    /\ Statuses[3] = <<status_intron, status_coding>>
    /\ Statuses[4][1] = status_coding

\* list.count
Occurrences(list, x) == Cardinality({n \in 1..Len(list) : list[n] = x})

\* C22: the links between transcripts and features are symmetric with equal multiplicity: once a
\* group is ingested, and after every later merge, the id of a feature occurs in the feature list
\* of a transcript as often as the id of the transcript occurs in the transcript list of the feature.
C22_LinksSymmetric ==
    pc = "normalized" =>
        \A t \in DOMAIN sl.transcripts :
            \A f \in DOMAIN sl.features.map :
                Occurrences(sl.transcripts[t].features, f) = Occurrences(sl.features.map[f].transcripts, t)

\* two features with equal type, start, end, seqid, strand and frame
SameTypeAndSpan(f, g) ==
    /\ f.type = g.type /\ f.start = g.start /\ f.end = g.end
    /\ f.seqid = g.seqid /\ f.strand = g.strand /\ f.frame = g.frame

\* C23: after check_and_fix_structure (collapse, then reconstruction of exons) no two distinct
\* features of the feature map have equal type, start, end, seqid, strand and frame: in particular
\* the reconstruction adds no two identical exons and no exon identical to an existing one.
C23_NoIdenticalFeatures ==
    pc = "normalized" =>
        \A f, g \in DOMAIN sl.features.map :
            f # g => ~SameTypeAndSpan(sl.features.map[f], sl.features.map[g])

====
